---- MODULE Spec2Model ----
(***************************************************************************)
(* A model of the tourism recommender of src/大语言模型/tourism_recommender.py *)
(* (class TourismRecommender) and of its web entry point show.py.           *)
(*                                                                         *)
(* Text is modelled structurally.  An opening-hours string is a sequence   *)
(* of rules (the pieces between ';'), a rule is a sequence of words (the   *)
(* pieces between white space) and a word is a sequence of atoms: the      *)
(* markers the code searches for, MM/DD date tokens, the '-' character and *)
(* other text.  `x in s` of the code is atom membership.                   *)
(***************************************************************************)
EXTENDS Integers, Sequences, FiniteSets, TLC

VARIABLES
    kg,               \* self.kg: the attraction nodes of the graph, in node order
    attractions_dict, \* self.attractions_dict: name -> flat record
    attractions_df,   \* self.attractions_df: whether it has the name column
    call,             \* the arguments of the last recommend or check_opening_status call
    ret,              \* what that call returned
    hours_arg,        \* the arguments of the last parse_opening_hours call
    hours_ret,        \* what that call returned
    route_arg,        \* the argument of the last _optimize_route call
    route_ret,        \* what that call returned (with the seed tour it started from)
    memo,             \* the lru_cache of parse_opening_hours, least recent entry first
    plan_arg,         \* the arguments of the last generate_travel_plan call
    plan_ret,         \* what that call returned
    area_arg,         \* the arguments of the last area-table lookup
    area_ret,         \* what that lookup returned
    threads,          \* the requests being served at the same time
    tsp               \* the frame of the running _solve_tsp call: path, i, j, improved

vars == <<kg, attractions_dict, attractions_df, call, ret, hours_arg, hours_ret,
          route_arg, route_ret, memo, plan_arg, plan_ret, area_arg, area_ret, threads, tsp>>

Idle == [op |-> "idle"]

\* The parts of the state a run leaves out: no memo entry, no plan request, no
\* area lookup, no request in progress, no route search in progress.
MemoEmpty == memo = <<>>
PlanIdle == plan_arg = Idle /\ plan_ret = Idle
AreaIdle == area_arg = Idle /\ area_ret = Idle
NoThreads == threads = <<>>
TspIdle == tsp = Idle

Range(s) == {s[i] : i \in DOMAIN s}

Min2(a, b) == IF a <= b THEN a ELSE b

Max2(a, b) == IF a >= b THEN a ELSE b

RECURSIVE SumSeq(_)
SumSeq(s) == IF s = <<>> THEN 0 ELSE Head(s) + SumSeq(Tail(s))

\* All sequences over S of length 0..n.
SeqsUpTo(S, n) == UNION {[1..k -> S] : k \in 0..n}

(***************************************************************************)
(* Dates (datetime.date): year, month, day.                                *)
(***************************************************************************)
Date(y, m, d) == [y |-> y, m |-> m, d |-> d]

NoDate == [y |-> 0, m |-> 0, d |-> 0]      \* visit_date = None

IsLeap(y) == (y % 4 = 0) /\ ((y % 100 # 0) \/ (y % 400 = 0))

DaysInMonth(y, m) ==
    IF m = 2 THEN (IF IsLeap(y) THEN 29 ELSE 28)
    ELSE IF m \in {4, 6, 9, 11} THEN 30 ELSE 31

\* datetime(year, month, day) raises ValueError for a date that does not exist.
ValidDate(y, m, d) == m \in 1..12 /\ d >= 1 /\ d <= DaysInMonth(y, m)

RECURSIVE DaysBeforeMonth(_, _)
DaysBeforeMonth(y, m) ==
    IF m <= 1 THEN 0 ELSE DaysBeforeMonth(y, m - 1) + DaysInMonth(y, m - 1)

\* date.toordinal(): 1 for 0001-01-01.
ToOrdinal(dt) ==
    LET y1 == dt.y - 1
    IN  y1 * 365 + (y1 \div 4) - (y1 \div 100) + (y1 \div 400)
        + DaysBeforeMonth(dt.y, dt.m) + dt.d

\* date.weekday(): Monday is 0.
Weekday(dt) == (ToOrdinal(dt) + 6) % 7

\* The order of two dates, as date.__le__ compares them.
DateLE(a, b) == ToOrdinal(a) <= ToOrdinal(b)

\* start + timedelta(days=1)
NextDay(dt) ==
    IF dt.d < DaysInMonth(dt.y, dt.m) THEN Date(dt.y, dt.m, dt.d + 1)
    ELSE IF dt.m < 12 THEN Date(dt.y, dt.m + 1, 1)
    ELSE Date(dt.y + 1, 1, 1)

(***************************************************************************)
(* Atoms of an opening-hours string.                                       *)
(***************************************************************************)
Mark(v) == [a |-> v, m |-> 0, d |-> 0]

ALLDAY == Mark("ALLDAY")          \* 全天开放
NOTOPEN == Mark("NOTOPEN")        \* 不开放
CLOSEDHALL == Mark("CLOSEDHALL")  \* 闭馆
DASH == Mark("-")
TIME == Mark("TIME")              \* other text, such as 09:00 or 17:00

\* The text MM/DD.
MD(m, d) == [a |-> "MM/DD", m |-> m, d |-> d]

\* visit_date.strftime('%m/%d'): the year is dropped.
Strftime(dt) == MD(dt.m, dt.d)

WeekdayMarks == <<Mark("MON"), Mark("TUE"), Mark("WED"), Mark("THU"),
                  Mark("FRI"), Mark("SAT"), Mark("SUN")>>

HolidayMarks == {Mark("NEWYEAR"), Mark("SPRING"), Mark("QINGMING"),
                 Mark("LABOUR"), Mark("DUANWU"), Mark("MIDAUTUMN"),
                 Mark("NATIONAL")}

RangeWord == <<MD(4, 30), DASH, MD(5, 2)>>      \* 04/30-05/02

TimeWord == <<TIME, DASH, TIME>>                \* 09:00-17:00

\* The value of an opening_hours cell: missing (None or NaN) or a string.
MissingHours == [kind |-> "missing", rules |-> <<>>]

Str(rules) == [kind |-> "str", rules |-> rules]

\* The atoms of a sequence of words, and of a sequence of rules.
WordsAtoms(ws) == UNION {Range(ws[i]) : i \in DOMAIN ws}

StrAtoms(h) == UNION {WordsAtoms(h.rules[i]) : i \in DOMAIN h.rules}

\* `atom in opening_hours_str`
InStr(atom, h) == atom \in StrAtoms(h)

\* word.split('-')
RECURSIVE SplitDash(_)
SplitDash(w) ==
    IF w = <<>> THEN << <<>> >>
    ELSE LET rest == SplitDash(Tail(w))
         IN  IF Head(w) = DASH THEN << <<>> >> \o rest
             ELSE << <<Head(w)>> \o Head(rest) >> \o Tail(rest)

\* _parse_partial_date: month, day = map(int, date_str.split('/')), then
\* datetime(year, month, day).date().  Anything but one existing MM/DD raises.
ParsePartialDateOk(piece, year) ==
    /\ Len(piece) = 1
    /\ piece[1].a = "MM/DD"
    /\ ValidDate(year, piece[1].m, piece[1].d)

_parse_partial_date(piece, year) == Date(year, piece[1].m, piece[1].d)

\* _date_in_range: start <= date <= end, and False on any exception.
_date_in_range(dt, start_str, end_str) ==
    IF ParsePartialDateOk(start_str, dt.y) /\ ParsePartialDateOk(end_str, dt.y)
    THEN /\ DateLE(_parse_partial_date(start_str, dt.y), dt)
         /\ DateLE(dt, _parse_partial_date(end_str, dt.y))
    ELSE FALSE

_is_holiday(dt) == <<dt.m, dt.d>> \in {<<1, 1>>, <<5, 1>>, <<10, 1>>}

\* A rule whose date range holds the date and whose weekday or holiday
\* restriction does not, taken as closing the attraction.
RuleOutcome_restrictive(rule, dt) ==
    IF DASH \notin Range(rule[1]) THEN "next"
    ELSE IF Len(rule) < 2 THEN "Raise"
    ELSE LET pieces == SplitDash(rule[1])
             time_part == WordsAtoms(Tail(rule))
         IN  IF Len(pieces) # 2 THEN "Raise"
             ELSE IF ~_date_in_range(dt, pieces[1], pieces[2]) THEN "next"
             ELSE IF \E k \in 1..7 : WeekdayMarks[k] \in time_part /\ Weekday(dt) # k - 1
                  THEN "False"
             ELSE IF (time_part \cap HolidayMarks # {}) /\ ~_is_holiday(dt) THEN "False"
             ELSE "True"

\* One rule of the loop of parse_opening_hours (lines 117-143):
\* "True" (return True), "next" (the loop goes on) or "Raise" (ValueError).
RuleOutcome(rule, dt) ==
    IF DASH \notin Range(rule[1]) THEN "next"
    ELSE IF Len(rule) < 2 THEN "Raise"     \* date_part, time_part = rule.split(maxsplit=1)
    ELSE LET pieces == SplitDash(rule[1])
             time_part == WordsAtoms(Tail(rule))
         IN  IF Len(pieces) # 2 THEN "Raise" \* start_date, end_date = date_part.split('-')
             ELSE IF ~_date_in_range(dt, pieces[1], pieces[2]) THEN "next"
             ELSE IF \E k \in 1..7 : WeekdayMarks[k] \in time_part /\ Weekday(dt) # k - 1
                  THEN "next"
             ELSE IF (time_part \cap HolidayMarks # {}) /\ ~_is_holiday(dt) THEN "next"
             ELSE "True"

RECURSIVE RulesOutcome(_, _)
RulesOutcome(rules, dt) ==
    IF rules = <<>> THEN "True"      \* lines 146-148: True with or without the token
    ELSE LET o == RuleOutcome(Head(rules), dt)
         IN  IF o = "next" THEN RulesOutcome(Tail(rules), dt) ELSE o

\* rules = [r.strip() for r in s.split(';') if r.strip()]
StripRules(rules) == SelectSeq(rules, LAMBDA r : r # <<>>)

\* The closed markers tested before the open-all-day marker.
parse_opening_hours_closed_first(h, dt) ==
    IF h.kind = "missing" \/ h.rules = <<>> THEN "True"
    ELSE IF InStr(NOTOPEN, h) \/ InStr(CLOSEDHALL, h)
    THEN IF dt # NoDate /\ InStr(Strftime(dt), h) THEN "False"
         ELSE IF InStr(NOTOPEN, h) THEN "False" ELSE "True"
    ELSE IF InStr(ALLDAY, h) THEN "True"
    ELSE IF dt # NoDate THEN RulesOutcome(StripRules(h.rules), dt)
    ELSE "True"

\* Line 108 returning True: only a listed date closes the attraction.
parse_opening_hours_listed_only(h, dt) ==
    IF h.kind = "missing" \/ h.rules = <<>> THEN "True"
    ELSE IF InStr(ALLDAY, h) THEN "True"
    ELSE IF InStr(NOTOPEN, h) \/ InStr(CLOSEDHALL, h)
    THEN IF dt # NoDate /\ InStr(Strftime(dt), h) THEN "False" ELSE "True"
    ELSE IF dt # NoDate THEN RulesOutcome(StripRules(h.rules), dt)
    ELSE "True"

\* Line 107 returning True: a listed date exempted instead of closed.
parse_opening_hours_exempt(h, dt) ==
    IF h.kind = "missing" \/ h.rules = <<>> THEN "True"
    ELSE IF InStr(ALLDAY, h) THEN "True"
    ELSE IF InStr(NOTOPEN, h) \/ InStr(CLOSEDHALL, h)
    THEN IF dt # NoDate /\ InStr(Strftime(dt), h) THEN "True"
         ELSE IF InStr(NOTOPEN, h) THEN "False" ELSE "True"
    ELSE IF dt # NoDate THEN RulesOutcome(StripRules(h.rules), dt)
    ELSE "True"

\* Line 110 without its guard: the rules read with no date to match.
parse_opening_hours_no_guard(h, dt) ==
    IF h.kind = "missing" \/ h.rules = <<>> THEN "True"
    ELSE IF InStr(ALLDAY, h) THEN "True"
    ELSE IF InStr(NOTOPEN, h) \/ InStr(CLOSEDHALL, h)
    THEN IF dt # NoDate /\ InStr(Strftime(dt), h) THEN "False"
         ELSE IF InStr(NOTOPEN, h) THEN "False" ELSE "True"
    ELSE IF dt = NoDate THEN "Raise"
    ELSE RulesOutcome(StripRules(h.rules), dt)

\* parse_opening_hours(opening_hours_str, visit_date): "True", "False" or "Raise".
parse_opening_hours(h, dt) ==
    IF h.kind = "missing" \/ h.rules = <<>> THEN "True"
    ELSE IF InStr(ALLDAY, h) THEN "True"
    ELSE IF InStr(NOTOPEN, h) \/ InStr(CLOSEDHALL, h)
    THEN IF dt # NoDate /\ InStr(Strftime(dt), h) THEN "False"
         ELSE IF InStr(NOTOPEN, h) THEN "False" ELSE "True"
    ELSE IF dt # NoDate THEN RulesOutcome(StripRules(h.rules), dt)
    ELSE "True"

HasClosedMarker(h) == InStr(NOTOPEN, h) \/ InStr(CLOSEDHALL, h)

HasToken(h, dt) == dt # NoDate /\ InStr(Strftime(dt), h)

(***************************************************************************)
(* @lru_cache(maxsize=1000) around parse_opening_hours.  The cache is a    *)
(* sequence of entries [key, value], the least recently used one first.    *)
(***************************************************************************)
maxsize == 1000

\* The cache key made of the date alone.
MemoKey_by_date(h, dt) == [h |-> MissingHours, dt |-> dt]

\* The cache key of a call: its positional arguments.
MemoKey(h, dt) == [h |-> h, dt |-> dt]

MemoKeys(cache) == {cache[i].key : i \in DOMAIN cache}

\* The position of a key in the cache, 0 when it is not cached.
MemoIndex(cache, key) ==
    LET hits == {i \in DOMAIN cache : cache[i].key = key}
    IN  IF hits = {} THEN 0 ELSE CHOOSE i \in hits : TRUE

\* The cache without its i-th entry.
MemoWithout(cache, i) ==
    [k \in 1..(Len(cache) - 1) |-> IF k < i THEN cache[k] ELSE cache[k + 1]]

\* A cache that never evicts (maxsize=None).
MemoInsert_unbounded(cache, entry) == Append(cache, entry)

\* A new entry goes to the most recent end; a full cache first drops its least
\* recently used entry.
MemoInsert(cache, entry) ==
    IF Len(cache) >= maxsize THEN Append(Tail(cache), entry) ELSE Append(cache, entry)

\* The end of a miss: the result is stored unless another call has stored the
\* key in the meantime.
MemoStore(cache, entry) ==
    IF entry.key \in MemoKeys(cache) THEN cache ELSE MemoInsert(cache, entry)

\* One call through the decorator: a hit returns the cached value and makes the
\* entry the most recent one; a miss runs the function body (parsed) and caches
\* its result, unless the body raises, which caches nothing.
MemoLookup(cache, h, dt) ==
    LET key == MemoKey(h, dt)
        i == MemoIndex(cache, key)
    IN  IF i # 0
        THEN [memo |-> Append(MemoWithout(cache, i), cache[i]),
              value |-> cache[i].value, parsed |-> FALSE]
        ELSE LET r == parse_opening_hours(h, dt)
             IN  IF r = "Raise"
                 THEN [memo |-> cache, value |-> r, parsed |-> TRUE]
                 ELSE [memo |-> MemoStore(cache, [key |-> key, value |-> r]),
                       value |-> r, parsed |-> TRUE]

(***************************************************************************)
(* Areas: _preprocess_data's adjacency and travel-time tables.             *)
(***************************************************************************)
UnknownArea == "Unknown"          \* 未知区域, what extract_area_from_address falls back to

\* 云龙区 泉山区 鼓楼区 铜山区 贾汪区 邳州市 新沂市 睢宁县 沛县 丰县
adjacent_areas ==
    [a \in {"Yunlong", "Quanshan", "Gulou", "Tongshan", "Jiawang", "Pizhou",
            "Xinyi", "Suining", "Peixian", "Fengxian"} |->
        CASE a = "Yunlong"  -> <<"Quanshan", "Gulou">>
          [] a = "Quanshan" -> <<"Yunlong", "Tongshan">>
          [] a = "Gulou"    -> <<"Yunlong", "Jiawang">>
          [] a = "Tongshan" -> <<"Quanshan", "Suining">>
          [] a = "Jiawang"  -> <<"Gulou", "Pizhou">>
          [] a = "Pizhou"   -> <<"Jiawang", "Xinyi">>
          [] a = "Xinyi"    -> <<"Pizhou">>
          [] a = "Suining"  -> <<"Tongshan">>
          [] a = "Peixian"  -> <<"Fengxian">>
          [] a = "Fengxian" -> <<"Peixian">>]

\* The pairs the dictionary literal lists (lines 63-72).
ListedTravelTimes ==
    (<<"Yunlong", "Quanshan">> :> 20) @@ (<<"Yunlong", "Gulou">> :> 15) @@
    (<<"Quanshan", "Tongshan">> :> 25) @@ (<<"Gulou", "Jiawang">> :> 40) @@
    (<<"Tongshan", "Suining">> :> 60) @@ (<<"Jiawang", "Pizhou">> :> 50) @@
    (<<"Pizhou", "Xinyi">> :> 45) @@ (<<"Peixian", "Fengxian">> :> 30)

\* The table without the loop of lines 74-75.
travel_times_one_way == ListedTravelTimes

\* Lines 74-75: every listed pair is entered in the other direction too.
travel_times ==
    [p \in DOMAIN ListedTravelTimes \cup
            {<<q[2], q[1]>> : q \in DOMAIN ListedTravelTimes} |->
        IF <<p[2], p[1]>> \in DOMAIN ListedTravelTimes
        THEN ListedTravelTimes[<<p[2], p[1]>>] ELSE ListedTravelTimes[p]]

get_adjacent_areas(area) ==
    IF area \in DOMAIN adjacent_areas THEN adjacent_areas[area] ELSE <<>>

DefaultTravelTime == 90

get_travel_time(area1, area2) ==
    IF area1 = area2 THEN 0
    ELSE IF <<area1, area2>> \in DOMAIN travel_times THEN travel_times[<<area1, area2>>]
    ELSE DefaultTravelTime

SameAreaBuffer == 15

CrossAreaOverhead == 30

\* The travel time plus the overhead, whether or not the areas differ.
_get_actual_travel_time_no_buffer(area1, area2) ==
    get_travel_time(area1, area2) + CrossAreaOverhead

_get_actual_travel_time(area1, area2) ==
    IF area1 = area2 THEN SameAreaBuffer
    ELSE get_travel_time(area1, area2) + CrossAreaOverhead

(***************************************************************************)
(* The route optimizer.  Stops are numbered from 0 as in the code; a path  *)
(* is a sequence of stop numbers and At(path, k) is path[k] of the code.   *)
(***************************************************************************)
At(path, k) == path[k + 1]

\* len(time_matrix)
Size(M) == Cardinality(DOMAIN M)

\* time_matrix of _optimize_route (lines 455-460): indexed from 0.
TimeMatrix(attractions) ==
    [i \in 0..(Len(attractions) - 1) |->
        [j \in 0..(Len(attractions) - 1) |->
            _get_actual_travel_time(attractions[i + 1].area, attractions[j + 1].area)]]

\* min(unvisited, key=lambda x: time_matrix[last][x]): the first minimum in the
\* iteration order of a set of small integers, which is ascending.
NearestOf(M, last, unvisited) ==
    CHOOSE x \in unvisited :
        \A y \in unvisited : M[last][x] < M[last][y] \/ (M[last][x] = M[last][y] /\ x <= y)

\* The while loop of lines 485-489.
RECURSIVE NearestNeighbor(_, _, _)
NearestNeighbor(M, path, unvisited) ==
    IF unvisited = {} THEN path
    ELSE LET next_node == NearestOf(M, path[Len(path)], unvisited)
         IN  NearestNeighbor(M, Append(path, next_node), unvisited \ {next_node})

\* unvisited = set(range(n)): the start stop left among the unvisited.
InitialUnvisited_with_start(n) == 0..(n - 1)

\* unvisited = set(range(1, n))
InitialUnvisited(n) == 1..(n - 1)

\* The nearest-neighbour seed tour (lines 482-489).
SeedTour(M) == NearestNeighbor(M, <<0>>, InitialUnvisited(Size(M)))

\* path[i:j + 1] = path[j:i - 1:-1]
ReverseSegment(path, i, j) ==
    [k \in 1..Len(path) |->
        IF k - 1 >= i /\ k - 1 <= j THEN At(path, i + j - (k - 1)) ELSE path[k]]

\* delta of lines 499-502; n is len(time_matrix).
Delta(M, path, i, j) ==
    LET n == Size(M)
        after == IF j + 1 < n THEN At(path, j + 1) ELSE 0
    IN  M[At(path, i - 1)][At(path, j)] + M[At(path, i)][after]
        - M[At(path, i - 1)][At(path, i)] - M[At(path, j)][after]

\* A move taken only when it saves more than half an hour.
Improves_by_margin(delta) == delta < -30

\* A move taken also when it saves nothing.
Improves_or_equal(delta) == delta <= 0

\* `if delta < 0`
Improves(delta) == delta < 0

\* One pass of the two for loops (lines 495-505), from position (i, j) on.
RECURSIVE TwoOptPass(_, _, _, _, _)
TwoOptPass(M, path, i, j, improved) ==
    LET n == Size(M)
    IN  IF i >= n - 2 THEN [path |-> path, improved |-> improved]
        ELSE IF j >= n THEN TwoOptPass(M, path, i + 1, i + 2, improved)
        ELSE IF j - i = 1 THEN TwoOptPass(M, path, i, j + 1, improved)
        ELSE IF Improves(Delta(M, path, i, j))
             THEN TwoOptPass(M, ReverseSegment(path, i, j), i, j + 1, TRUE)
             ELSE TwoOptPass(M, path, i, j + 1, improved)

\* while improved: ... (lines 492-505)
RECURSIVE TwoOpt(_, _)
TwoOpt(M, path) ==
    LET r == TwoOptPass(M, path, 1, 2, FALSE)
    IN  IF r.improved THEN TwoOpt(M, r.path) ELSE r.path

_solve_tsp(M) == IF Size(M) <= 1 THEN <<0>> ELSE TwoOpt(M, SeedTour(M))

\* [attractions[i] for i in optimized_indices]
Reorder(attractions, indices) ==
    [k \in 1..Len(indices) |-> attractions[indices[k] + 1]]

_optimize_route(attractions) ==
    IF Len(attractions) <= 2 THEN attractions
    ELSE Reorder(attractions, _solve_tsp(TimeMatrix(attractions)))

\* The sum of the cost-matrix entries over consecutive stops: the travel part
\* of _estimate_total_time (lines 515-518), in minutes.
PathCost(stops) ==
    SumSeq([k \in 1..(Len(stops) - 1) |->
               _get_actual_travel_time(stops[k].area, stops[k + 1].area)])

(***************************************************************************)
(* The recommender's data.  kg.nodes are the attraction nodes in node      *)
(* order: [name, address, themes, audiences, degree, opening_hours], where *)
(* address is the set of area names the address text contains.  A flat     *)
(* record is [rating, comments, enhanced_address, opening_hours].          *)
(***************************************************************************)
\* A rating cell: absent/None, a no-rating marker, NaN, a number (in
\* thousandths) or other text.
NoRating == [k |-> "none", v |-> 0]
MarkerRating == [k |-> "marker", v |-> 0]      \* 无评分, 暂无评分
NanRating == [k |-> "nan", v |-> 0]
NumRating(v) == [k |-> "num", v |-> v]
TextRating == [k |-> "text", v |-> 0]

\* A comment-count cell: absent, NaN, a number, or a string whose digits
\* spell v (v = -1: a string with no digit).
NoComments == [k |-> "absent", v |-> 0]
NanComments == [k |-> "nan", v |-> 0]
IntComments(v) == [k |-> "int", v |-> v]
StrComments(v) == [k |-> "str", v |-> v]

get_attractions == kg.nodes

\* get_related_attributes(node, relation), as a set of names.
get_related_attributes(node, relation) ==
    IF relation = "HAS_THEME" THEN node.themes
    ELSE IF relation = "SUITABLE_FOR" THEN node.audiences
    ELSE {}

extract_area_from_address(address) ==
    IF address \cap kg.areas = {} THEN UnknownArea
    ELSE CHOOSE a \in address \cap kg.areas : TRUE

\* 1000 * math.log1p(k), rounded.
Log1pTable == <<0, 693, 1099, 1386, 1609, 1792, 1946, 2079, 2197, 2303, 2398>>

Log1p(k) == Log1pTable[Min2(k, 10) + 1]

\* Lines 216-228, in thousandths of a point.
SynthesizedRating(node) ==
    LET rating == 70000 + 10 * Log1p(Cardinality(node.themes))
                        + 8 * Log1p(Cardinality(node.audiences))
                        + 5 * Log1p(node.degree)
    IN  Min2(95000, Max2(60000, rating)) \div 20

\* csv_data = self.attractions_dict.get(name, {})
HasRecord(name) == name \in DOMAIN attractions_dict

\* Lines 204-210.
CommentCount(name) ==
    IF ~HasRecord(name) THEN 0
    ELSE LET c == attractions_dict[name].comments
         IN  IF c.k = "str" /\ c.v >= 0 THEN c.v ELSE 0

\* Lines 213-234, in thousandths; min(5.0, max(1.0, nan)) is 1.0.
Rating(node) ==
    LET r == IF HasRecord(node.name) THEN attractions_dict[node.name].rating ELSE NoRating
    IN  IF r.k \in {"none", "marker"} THEN SynthesizedRating(node)
        ELSE IF r.k = "num" THEN Min2(5000, Max2(1000, r.v))
        ELSE IF r.k = "nan" THEN 1000
        ELSE 3500

get_attraction_info(node) ==
    [name |-> node.name,
     rating |-> Rating(node),
     comment_count |-> CommentCount(node.name),
     address |-> node.address,
     opening_hours |-> IF HasRecord(node.name)
                       THEN attractions_dict[node.name].opening_hours
                       ELSE node.opening_hours]

\* check_opening_status without its try/except.
check_opening_status_no_except(attraction_name, visit_date) ==
    IF ~attractions_df.name_column THEN "Raise"
    ELSE IF attraction_name \notin DOMAIN attractions_dict THEN "Raise"
    ELSE parse_opening_hours(attractions_dict[attraction_name].opening_hours, visit_date)

\* check_opening_status on the data frame df: the row is looked up by the name
\* column; any exception (no such column, no such row, a rule that raises)
\* gives True.
check_opening_status_on(df, attraction_name, visit_date) ==
    IF ~df.name_column THEN "True"
    ELSE IF ~HasRecord(attraction_name) THEN "True"
    ELSE LET r == parse_opening_hours(attractions_dict[attraction_name].opening_hours,
                                      visit_date)
         IN  IF r = "Raise" THEN "True" ELSE r

check_opening_status(attraction_name, visit_date) ==
    check_opening_status_on(attractions_df, attraction_name, visit_date)

\* attractions_df as the two branches of __init__ make it: read from the CSV
\* file with its name column (line 31), or rebuilt from the cached dictionary
\* with the names as index and no name column (line 26).
SourceFrame == [name_column |-> TRUE]

CacheFrame == [name_column |-> FALSE]

(***************************************************************************)
(* recommend.  A raw score is an exact fraction num / den.                 *)
(***************************************************************************)
ThemeWeight == 30
AudienceWeight == 25
AreaFull == 20
AreaAdjacent == 14
AreaOther == 8
MAX_RAW_SCORE == 100
DefaultTopN == 5

\* The top_n argument: left out, None, or an integer.
TopNOmitted == [k |-> "omitted", v |-> 0]
TopNNone == [k |-> "none", v |-> 0]
TopN(v) == [k |-> "int", v |-> v]

\* round(x, 1) of the fraction n / d (d > 0), in tenths: to the nearest, a tie
\* to the even tenth.
RoundTenths(n, d) ==
    LET q == (10 * n) \div d
        r == (10 * n) % d
    IN  IF 2 * r > d THEN q + 1
        ELSE IF 2 * r < d THEN q
        ELSE IF q % 2 = 0 THEN q ELSE q + 1

\* The raw score returned as it is, neither rescaled nor clamped.
final_score_unscaled(num, den) == RoundTenths(num, den)

\* Lines 331-334: round(1 + 4 * raw / 100, 1) clamped to [1.0, 5.0], in tenths.
final_score(num, den) ==
    Min2(50, Max2(10, RoundTenths(MAX_RAW_SCORE * den + 4 * num, MAX_RAW_SCORE * den)))

\* 1.0 if not themes else len(set(themes) & set(themes_attr)) / len(themes)
\* (lines 273 and 276), as the fraction num / den.
match_ratio(requested, attrs) ==
    IF requested = <<>> THEN [num |-> 1, den |-> 1]
    ELSE [num |-> Cardinality(Range(requested) \cap attrs), den |-> Len(requested)]

\* The theme and audience terms of the raw score, as fractions.
theme_score(themes, themes_attr) ==
    [num |-> ThemeWeight * match_ratio(themes, themes_attr).num,
     den |-> match_ratio(themes, themes_attr).den]

audience_score(audiences, audiences_attr) ==
    [num |-> AudienceWeight * match_ratio(audiences, audiences_attr).num,
     den |-> match_ratio(audiences, audiences_attr).den]

\* The bands with 10 points for the highest.
comment_bonus_up_to_ten(comment_count) ==
    IF comment_count < 0 THEN 0
    ELSE IF comment_count < 50 THEN 1
    ELSE IF comment_count < 200 THEN 2
    ELSE IF comment_count < 1000 THEN 4
    ELSE IF comment_count < 5000 THEN 6
    ELSE 10

\* Lines 303-307.
comment_bonus(comment_count) ==
    IF comment_count < 0 THEN 0
    ELSE IF comment_count < 50 THEN 1
    ELSE IF comment_count < 200 THEN 2
    ELSE IF comment_count < 1000 THEN 4
    ELSE IF comment_count < 5000 THEN 6
    ELSE 8

\* Lines 310-316.
seasonal_bonus(themes_attr, date_range) ==
    IF date_range = <<>> THEN 0
    ELSE IF "Snow" \in themes_attr /\ date_range[1].m \in {12, 1, 2} THEN 2
    ELSE IF "Flower" \in themes_attr /\ date_range[1].m \in {3, 4} THEN 1
    ELSE 0

\* The area term with the adjacent case left out.
area_score_no_adjacent(area, target_area) ==
    IF target_area = "" THEN AreaFull
    ELSE IF area = target_area THEN AreaFull
    ELSE AreaOther

\* Lines 280-287.
area_score(area, target_area) ==
    IF target_area = "" THEN AreaFull
    ELSE IF area = target_area THEN AreaFull
    ELSE IF area \in Range(get_adjacent_areas(target_area)) THEN AreaAdjacent
    ELSE AreaOther

\* sum(self.check_opening_status(info['name'], date) for date in date_range)
open_days(name, date_range) ==
    Cardinality({k \in DOMAIN date_range : check_opening_status(name, date_range[k]) = "True"})

\* Whether the loop body reaches `continue` at line 298.
Skipped(node, q) ==
    q.date_range # <<>> /\ open_days(node.name, q.date_range) = 0

\* Lines 268-336 for one attraction that is not skipped and is open on
\* counted of the requested days (line 295): the candidate tuple.
CandidateCounted(node, q, counted) ==
    LET info == get_attraction_info(node)
        themes_attr == get_related_attributes(node, "HAS_THEME")
        audiences_attr == get_related_attributes(node, "SUITABLE_FOR")
        nT == match_ratio(q.themes, themes_attr).den
        kT == match_ratio(q.themes, themes_attr).num
        nA == match_ratio(q.audiences, audiences_attr).den
        kA == match_ratio(q.audiences, audiences_attr).num
        nD == IF q.date_range = <<>> THEN 1 ELSE Len(q.date_range)
        kD == IF q.date_range = <<>> THEN 1 ELSE counted
        den == 1000 * nT * nA * nD
        area == extract_area_from_address(info.address)
        \* open_penalty = 5 - 5 * open_ratio when open_ratio < 0.8
        penalty == IF q.date_range # <<>> /\ 5 * kD < 4 * nD
                   THEN 5 * den - 5 * kD * (den \div nD) ELSE 0
        num == ThemeWeight * kT * (den \div nT)
               + AudienceWeight * kA * (den \div nA)
               + area_score(area, q.target_area) * den
               + 2 * info.rating * (den \div 1000)
               + comment_bonus(info.comment_count) * den
               + seasonal_bonus(themes_attr, q.date_range) * den
               - penalty
    IN  [node |-> node.name, score |-> final_score(num, den), info |-> info]

Candidate(node, q) == CandidateCounted(node, q, open_days(node.name, q.date_range))

\* The candidates list before the sort, in node order.
RECURSIVE Candidates(_, _)
Candidates(nodes, q) ==
    IF nodes = <<>> THEN <<>>
    ELSE IF Skipped(Head(nodes), q) THEN Candidates(Tail(nodes), q)
    ELSE <<Candidate(Head(nodes), q)>> \o Candidates(Tail(nodes), q)

\* key=lambda x: (-x[1], x[2]['comment_count']): the tie-break ascending.
SortsBefore_ascending_tie(a, b) ==
    \/ a.score > b.score
    \/ a.score = b.score /\ a.info.comment_count < b.info.comment_count

\* key=lambda x: (-x[1], -x[2]['comment_count']): whether a's key is smaller.
SortsBefore(a, b) ==
    \/ a.score > b.score
    \/ a.score = b.score /\ a.info.comment_count > b.info.comment_count

\* list.sort is stable: x goes behind every element whose key is not greater.
RECURSIVE InsertSorted(_, _)
InsertSorted(sorted, x) ==
    IF sorted = <<>> THEN <<x>>
    ELSE IF SortsBefore(x, Head(sorted)) THEN <<x>> \o sorted
    ELSE <<Head(sorted)>> \o InsertSorted(Tail(sorted), x)

RECURSIVE SortCandidates(_)
SortCandidates(cands) ==
    IF cands = <<>> THEN <<>>
    ELSE InsertSorted(SortCandidates(SubSeq(cands, 1, Len(cands) - 1)), cands[Len(cands)])

\* candidates[:top_n + 1]
Slice_one_more(cands, top_n) ==
    LET n == IF top_n.k = "omitted" THEN DefaultTopN ELSE top_n.v
    IN  IF top_n.k = "none" THEN cands
        ELSE IF n + 1 >= 0 THEN SubSeq(cands, 1, Min2(n + 1, Len(cands)))
        ELSE SubSeq(cands, 1, Max2(Len(cands) + n + 1, 0))

\* candidates[:top_n], top_n being 5 when the caller leaves it out.
Slice(cands, top_n) ==
    LET n == IF top_n.k = "omitted" THEN DefaultTopN ELSE top_n.v
    IN  IF top_n.k = "none" THEN cands
        ELSE IF n >= 0 THEN SubSeq(cands, 1, Min2(n, Len(cands)))
        ELSE SubSeq(cands, 1, Max2(Len(cands) + n, 0))

\* The sorted candidates list (line 339).
Ranked(q) == SortCandidates(Candidates(get_attractions, q))

\* recommend(themes, audiences, target_area, date_range, top_n).  Line 250
\* takes max() of the records' comment counts, which raises ValueError when
\* there is no record at all.
recommend(q) ==
    IF DOMAIN attractions_dict = {}
    THEN [op |-> "recommend", raised |-> TRUE, value |-> <<>>]
    ELSE [op |-> "recommend", raised |-> FALSE, value |-> Slice(Ranked(q), q.top_n)]

(***************************************************************************)
(* The recommender as a state machine: the initial state is the state      *)
(* after __init__ (from the source files, or from kg_cache.pkl, which      *)
(* rebuilds attractions_df without its name column); every request calls   *)
(* recommend and returns.                                                  *)
(***************************************************************************)
FewAttractions == 2

MaxDays == 3

KnownAreas == DOMAIN adjacent_areas

\* What the source files say of one attraction.
BaseProfile ==
    [themes |-> {"HanCulture"}, audiences |-> {"CultureFans"}, address |-> {"Yunlong"},
     rating |-> NumRating(4500), comments |-> StrComments(1200),
     hours |-> MissingHours, has_record |-> TRUE]

Profiles ==
    {BaseProfile}
    \cup {[BaseProfile EXCEPT !.themes = {}, !.audiences = {}],
          [BaseProfile EXCEPT !.themes = {"HanCulture", "Flower"}]}
    \cup {[BaseProfile EXCEPT !.address = a] : a \in {{"Quanshan"}, {}}}
    \cup {[BaseProfile EXCEPT !.rating = NoRating, !.comments = StrComments(10000000)],
          [BaseProfile EXCEPT !.rating = NanRating, !.comments = StrComments(30)],
          [BaseProfile EXCEPT !.rating = NumRating(0), !.comments = IntComments(6000)],
          [BaseProfile EXCEPT !.rating = NumRating(7000), !.comments = StrComments(-1)],
          [BaseProfile EXCEPT !.rating = TextRating]}
    \cup {[BaseProfile EXCEPT !.hours = h] :
            h \in {Str(<< << <<NOTOPEN>> >> >>),
                   Str(<< << <<MD(5, 1), CLOSEDHALL>> >> >>),
                   Str(<< <<RangeWord>> >>)}}
    \cup {[BaseProfile EXCEPT !.has_record = FALSE]}

\* Enough attractions to outnumber the default top_n.
ManyProfiles == {BaseProfile, [BaseProfile EXCEPT !.comments = StrComments(30)]}

Datasets ==
    SeqsUpTo(Profiles, FewAttractions) \cup [1..(DefaultTopN + 1) -> ManyProfiles]

\* The attraction node graph.py builds for the k-th attraction.
NodeOf(k, p) ==
    [name |-> k, address |-> p.address, themes |-> p.themes, audiences |-> p.audiences,
     degree |-> Cardinality(p.themes) + Cardinality(p.audiences)
                + Cardinality(p.address \cap KnownAreas),
     opening_hours |-> p.hours]

\* The row of enhanced_attractions.csv of an attraction.
RecordOf(p) ==
    [rating |-> p.rating, comments |-> p.comments, enhanced_address |-> p.address,
     opening_hours |-> p.hours]

Init ==
    /\ \E ds \in Datasets :
         /\ kg = [nodes |-> [k \in DOMAIN ds |-> NodeOf(k, ds[k])], areas |-> KnownAreas]
         /\ attractions_dict =
                [k \in {i \in DOMAIN ds : ds[i].has_record} |-> RecordOf(ds[k])]
    /\ attractions_df \in {[name_column |-> b] : b \in BOOLEAN}
    /\ call = Idle
    /\ ret = Idle
    /\ hours_arg = [h |-> MissingHours, dt |-> NoDate]
    /\ hours_ret = Idle
    /\ route_arg = <<>>
    /\ route_ret = Idle
    /\ MemoEmpty /\ PlanIdle /\ AreaIdle /\ NoThreads /\ TspIdle

\* date_range of show.py: start, start + 1 day, ...
RECURSIVE DaysFrom(_, _)
DaysFrom(start, n) ==
    IF n = 0 THEN <<>> ELSE <<start>> \o DaysFrom(NextDay(start), n - 1)

DateRanges ==
    {<<>>} \cup {DaysFrom(start, n) :
                    start \in {Date(2025, 4, 30), Date(2025, 5, 1)}, n \in 1..MaxDays}

DefaultQuery ==
    [themes |-> <<>>, audiences |-> <<>>, target_area |-> "", date_range |-> <<>>,
     top_n |-> TopNOmitted]

\* The calls in which all arguments but two, at most, are the default ones.
Queries ==
    {q \in [themes : {<<>>, <<"HanCulture">>, <<"HanCulture", "Snow">>,
                      <<"HanCulture", "HanCulture">>},
            audiences : {<<>>, <<"CultureFans">>},
            target_area : {"", "Yunlong", "Peixian"},
            date_range : DateRanges,
            top_n : {TopNOmitted, TopNNone, TopN(-1), TopN(0), TopN(1), TopN(2)}] :
        \E f, g \in DOMAIN q : \A h \in DOMAIN q \ {f, g} : q[h] = DefaultQuery[h]}

Recommend ==
    /\ ret = Idle
    /\ \E q \in Queries :
         /\ call' = q
         /\ ret' = recommend(q)
    /\ UNCHANGED <<kg, attractions_dict, attractions_df,
                   hours_arg, hours_ret, route_arg, route_ret,
                   memo, plan_arg, plan_ret, area_arg, area_ret, threads, tsp>>

\* The request is answered; the recommender waits for the next one.
Respond ==
    /\ ret # Idle
    /\ call' = Idle
    /\ ret' = Idle
    /\ UNCHANGED <<kg, attractions_dict, attractions_df,
                   hours_arg, hours_ret, route_arg, route_ret,
                   memo, plan_arg, plan_ret, area_arg, area_ret, threads, tsp>>

Next == Recommend \/ Respond

Spec == Init /\ [][Next]_vars

Returned == ret # Idle /\ ~ret.raised

\* C1: every score recommend returns lies in [1.0, 5.0] (10..50 tenths),
\* whatever the query and the attraction data.
C1_ScoreInRange ==
    Returned => \A k \in DOMAIN ret.value :
                    ret.value[k].score >= 10 /\ ret.value[k].score <= 50

\* A scored attraction with no rating and ten million comments, under a query
\* with themes, a target area or dates.
C1_Witness ==
    /\ Returned
    /\ call # DefaultQuery
    /\ \E k \in DOMAIN ret.value :
         /\ attractions_dict[ret.value[k].node].rating = NoRating
         /\ ret.value[k].info.comment_count = 10000000
         /\ ret.value[k].score \in 10..50

\* C2: the returned list is ordered by score descending and, among equal
\* scores, by comment count descending.
C2_RankedOrder ==
    Returned => \A k \in 1..(Len(ret.value) - 1) :
                    LET a == ret.value[k]
                        b == ret.value[k + 1]
                    IN  \/ a.score > b.score
                        \/ a.score = b.score /\ a.info.comment_count >= b.info.comment_count

\* Two results of equal score that the comment count has put in the reverse of
\* their node order.
C2_Witness ==
    /\ Returned
    /\ \E k \in 1..(Len(ret.value) - 1) :
         /\ ret.value[k].score = ret.value[k + 1].score
         /\ ret.value[k].info.comment_count > ret.value[k + 1].info.comment_count
         /\ ret.value[k].node > ret.value[k + 1].node

\* The first n elements of a list (all of it when it is shorter).
FirstN(cands, n) == SubSeq(cands, 1, Min2(n, Len(cands)))

\* C3 as stated: with a result limit N the result is the first N candidates of
\* the ranked list, and with no limit specified it is all of them.
C3_Original ==
    Returned =>
        IF call.top_n.k = "int"
        THEN call.top_n.v >= 0 => ret.value = FirstN(Ranked(call), call.top_n.v)
        ELSE ret.value = Ranked(call)

\* C3 as amended: the result is the first N candidates of the ranked list for
\* a limit N >= 0 and all but the last -N for a limit N < 0; it is the whole
\* ranked list when the limit passed is None, and the first 5 when the caller
\* leaves the limit out.
C3_TopN ==
    Returned =>
        LET ranked == Ranked(call)
        IN  ret.value =
              CASE call.top_n.k = "none" -> ranked
                [] call.top_n.k = "omitted" -> FirstN(ranked, 5)
                [] call.top_n.k = "int" /\ call.top_n.v >= 0 -> FirstN(ranked, call.top_n.v)
                [] OTHER -> FirstN(ranked, Max2(Len(ranked) + call.top_n.v, 0))

\* The limit left out, and more than five qualifying candidates.
C3_Witness ==
    /\ Returned
    /\ call.top_n = TopNOmitted
    /\ Len(Ranked(call)) > 5
    /\ Len(ret.value) = 5

\* The evaluator finds the attraction's record closed on every requested day.
ClosedThroughout(node, date_range) ==
    /\ date_range # <<>>
    /\ HasRecord(node.name)
    /\ \A k \in DOMAIN date_range :
          parse_opening_hours(attractions_dict[node.name].opening_hours, date_range[k])
              = "False"

\* C4: when a date range is requested, an attraction that is closed on every
\* day of the range is not among the results, and no error is raised.
C4_ClosedExcluded ==
    ret # Idle =>
        \A i \in DOMAIN kg.nodes :
            ClosedThroughout(kg.nodes[i], call.date_range)
                => /\ ~ret.raised
                   /\ \A k \in DOMAIN ret.value : ret.value[k].node # kg.nodes[i].name

\* C19: the theme term is 30 when no theme is requested and otherwise
\* 30 x (requested themes the attraction has) / (requested themes), so that an
\* attraction with every requested theme gets the full 30; the audience term
\* is the same with weight 25.
C19_MatchTerms ==
    ret # Idle =>
        \A i \in DOMAIN kg.nodes :
            LET themes_attr == get_related_attributes(kg.nodes[i], "HAS_THEME")
                audiences_attr == get_related_attributes(kg.nodes[i], "SUITABLE_FOR")
                wanted == Range(call.themes)
                groups == Range(call.audiences)
                t == theme_score(call.themes, themes_attr)
                a == audience_score(call.audiences, audiences_attr)
            IN  /\ call.themes = <<>> => t.num = 30 * t.den
                /\ call.themes # <<>> =>
                      t.num * Cardinality(wanted) = 30 * Cardinality(wanted \cap themes_attr) * t.den
                /\ (call.themes # <<>> /\ wanted \subseteq themes_attr) => t.num = 30 * t.den
                /\ call.audiences = <<>> => a.num = 25 * a.den
                /\ call.audiences # <<>> =>
                      a.num * Cardinality(groups) = 25 * Cardinality(groups \cap audiences_attr) * a.den
                /\ (call.audiences # <<>> /\ groups \subseteq audiences_attr) => a.num = 25 * a.den

\* C20: the area term is 20 when no target area is requested or the
\* attraction's resolved area is the target, 14 when that area is in the
\* adjacency list of the target, and 8 in every other case.
C20_AreaTerm ==
    ret # Idle =>
        \A i \in DOMAIN kg.nodes :
            LET area == extract_area_from_address(kg.nodes[i].address)
                target == call.target_area
                term == area_score(area, target)
            IN  term = IF target = "" \/ area = target THEN 20
                       ELSE IF target \in DOMAIN adjacent_areas
                               /\ area \in Range(adjacent_areas[target]) THEN 14
                       ELSE 8

\* A call with a target area that returned an attraction of an adjacent area
\* and one whose address names no known area, the first scored above the
\* second by the difference of 14 and 8 on the raw scale.
C20_Witness ==
    /\ Returned
    /\ call.target_area = "Yunlong"
    /\ \E j, k \in DOMAIN ret.value :
         /\ extract_area_from_address(ret.value[j].info.address) = "Quanshan"
         /\ extract_area_from_address(ret.value[k].info.address) = UnknownArea
         /\ ret.value[j].score > ret.value[k].score

\* C21: for a record holding the comment count c, a non-negative integer,
\* the comment bonus is 1, 2, 4, 6 or 8 by the band of c (below 50, 200, 1000,
\* 5000, or above) and the comment count of the tie-break is c.
C21_CommentBands ==
    ret # Idle =>
        \A i \in DOMAIN kg.nodes :
            LET name == kg.nodes[i].name
                info == get_attraction_info(kg.nodes[i])
            IN  (/\ HasRecord(name)
                 /\ attractions_dict[name].comments.k \in {"int", "str"}
                 /\ attractions_dict[name].comments.v >= 0) =>
                    LET c == attractions_dict[name].comments.v
                    IN  /\ info.comment_count = c
                        /\ comment_bonus(info.comment_count) =
                              IF c < 50 THEN 1 ELSE IF c < 200 THEN 2
                              ELSE IF c < 1000 THEN 4 ELSE IF c < 5000 THEN 6 ELSE 8

\* C22: the rating get_attraction_info returns lies in 1.0..5.0: a missing
\* rating (no record, no value, or the not-a-number of an empty cell) or a
\* 'no rating' marker is synthesized from the graph, a numeric rating is
\* clamped into the range, a non-numeric one becomes the default 3.5.
C22_RatingInRange ==
    ret # Idle =>
        \A i \in DOMAIN kg.nodes :
            LET node == kg.nodes[i]
                r == IF HasRecord(node.name) THEN attractions_dict[node.name].rating
                     ELSE NoRating
                rating == get_attraction_info(node).rating
            IN  /\ rating >= 1000 /\ rating <= 5000
                /\ r.k \in {"none", "marker", "nan"} =>
                      /\ rating = SynthesizedRating(node)
                      /\ rating >= 3000 /\ rating <= 4750
                /\ r.k = "num" =>
                      rating = (IF r.v < 1000 THEN 1000 ELSE IF r.v > 5000 THEN 5000 ELSE r.v)
                /\ r.k = "text" => rating = 3500

(***************************************************************************)
(* recommend on the attractions that score highest: rated at or above the  *)
(* top of the scale, with comment counts around the highest band, with a   *)
(* seasonal theme, asked for in and out of season.                         *)
(***************************************************************************)
ScoreProfiles ==
    {[BaseProfile EXCEPT !.themes = th, !.rating = r, !.comments = c] :
        th \in {{"Snow"}, {"Snow", "HanCulture"}, {"Flower"}},
        r \in {NumRating(4900), NumRating(5000), NumRating(7000), NoRating},
        c \in {StrComments(4999), StrComments(5000), StrComments(10000000)}}

ScoreQueries ==
    [themes : {<<>>, <<"Snow">>, <<"HanCulture", "Snow">>},
     audiences : {<<>>, <<"CultureFans">>},
     target_area : {"", "Yunlong"},
     date_range : {<<>>, <<Date(2025, 1, 15)>>, <<Date(2025, 4, 30)>>,
                   <<Date(2025, 12, 31), Date(2026, 1, 1)>>},
     top_n : {TopNNone}]

InitScore ==
    /\ \E p \in ScoreProfiles :
         /\ kg = [nodes |-> <<NodeOf(1, p)>>, areas |-> KnownAreas]
         /\ attractions_dict = <<RecordOf(p)>>
    /\ attractions_df = SourceFrame
    /\ call = Idle
    /\ ret = Idle
    /\ hours_arg = [h |-> MissingHours, dt |-> NoDate]
    /\ hours_ret = Idle
    /\ route_arg = <<>>
    /\ route_ret = Idle
    /\ MemoEmpty /\ PlanIdle /\ AreaIdle /\ NoThreads /\ TspIdle

RecommendInSeason ==
    /\ ret = Idle
    /\ \E q \in ScoreQueries :
         /\ call' = q
         /\ ret' = recommend(q)
    /\ UNCHANGED <<kg, attractions_dict, attractions_df,
                   hours_arg, hours_ret, route_arg, route_ret,
                   memo, plan_arg, plan_ret, area_arg, area_ret, threads, tsp>>

NextScore == RecommendInSeason \/ Respond

SpecScore == InitScore /\ [][NextScore]_vars

C15_UnmatchedSkipped ==
    ret # Idle =>
        /\ ~ret.raised
        /\ \A k \in DOMAIN ret.value :
              /\ HasRecord(ret.value[k].node)
              /\ \E i \in DOMAIN kg.nodes : kg.nodes[i].name = ret.value[k].node

(***************************************************************************)
(* The opening-hours evaluator on its own: the inputs are drawn by the     *)
(* initial state, the action applies parse_opening_hours to them.          *)
(***************************************************************************)
MaxRules == 2

HoursRules ==
    { <<>>,                                      \* nothing between two ';'
      << <<ALLDAY>> >>,
      << <<NOTOPEN>> >>,
      << <<Mark("MON"), CLOSEDHALL>> >>,         \* 周一闭馆
      << <<MD(5, 1), CLOSEDHALL>> >>,            \* 05/01闭馆
      << <<MD(5, 1)>>, TimeWord >>,              \* 05/01 09:00-17:00
      << RangeWord, TimeWord >>,
      << RangeWord, <<Mark("THU"), TIME>> >>,    \* a weekday restriction
      << RangeWord, <<Mark("LABOUR"), TIME>> >>, \* a holiday restriction
      << RangeWord >>,                           \* a date range and no time part
      << RangeWord \o <<DASH, MD(5, 3)>>, <<TIME>> >>,  \* two '-' in the range
      << TimeWord >>,                            \* 09:00-17:00 alone
      << TimeWord, <<TIME>> >>,
      << <<MD(2, 30), DASH, MD(5, 2)>>, <<TIME>> >> }   \* 02/30 does not exist

HoursValues == {MissingHours} \cup {Str(rs) : rs \in SeqsUpTo(HoursRules, MaxRules)}

HoursDates == {Date(2025, 4, 30), Date(2025, 5, 1), Date(2025, 5, 3),
               Date(2025, 5, 5), Date(2026, 5, 1)}

NoData ==
    /\ kg = [nodes |-> <<>>, areas |-> {}]
    /\ attractions_dict = <<>>
    /\ attractions_df = [name_column |-> TRUE]
    /\ call = Idle
    /\ ret = Idle

InitHours ==
    /\ NoData
    /\ MemoEmpty /\ PlanIdle /\ AreaIdle /\ NoThreads /\ TspIdle
    /\ hours_arg \in [h : HoursValues, dt : HoursDates \cup {NoDate}]
    /\ hours_ret = Idle
    /\ route_arg = <<>>
    /\ route_ret = Idle

ParseOpeningHours ==
    /\ hours_ret = Idle
    /\ hours_ret' = [op |-> "parse_opening_hours",
                     value |-> parse_opening_hours(hours_arg.h, hours_arg.dt)]
    /\ UNCHANGED <<kg, attractions_dict, attractions_df, call, ret,
                   hours_arg, route_arg, route_ret,
                   memo, plan_arg, plan_ret, area_arg, area_ret, threads, tsp>>

NextHours == ParseOpeningHours

SpecHours == InitHours /\ [][NextHours]_vars

Parsed == hours_ret # Idle

(***************************************************************************)
(* generate_travel_plan.  The text generator (ollama.generate) is an       *)
(* oracle: fails is the set of the numbers of the calls that raise, the    *)
(* calls of one generate_travel_plan being numbered from 1 in the order    *)
(* they are made.  A generated text is [kind |-> "llm", prompt], a         *)
(* description read from the record or a fallback text has its own kind.   *)
(***************************************************************************)
\* csv_desc and not pd.isna(csv_desc) (lines 625-626)
HasDescription(name) ==
    /\ HasRecord(name)
    /\ "description" \in DOMAIN attractions_dict[name]

\* generate_attraction_description(name): the record's description, or a
\* generated one, or the fallback sentence when the call fails.
generate_attraction_description(name, themes, failed) ==
    IF HasDescription(name) THEN [kind |-> "csv", name |-> name]
    ELSE IF failed THEN [kind |-> "fallback", name |-> name, themed |-> themes # {}]
    ELSE [kind |-> "llm", name |-> name]

\* How many text-generation calls the descriptions of the first k selected
\* attractions make.
DescriptionCalls(selected, k) ==
    Cardinality({i \in 1..k : ~HasDescription(get_attraction_info(kg.nodes[selected[i].node]).name)})

\* Lines 347-367 for one selected attraction, the k-th.
AttractionInfo(selected, k, fails) ==
    LET attr == selected[k]
        node == kg.nodes[attr.node]
        info == get_attraction_info(node)
        themes == get_related_attributes(node, "HAS_THEME")
        opening_hours == IF attractions_df.name_column /\ HasRecord(info.name)
                         THEN attractions_dict[info.name].opening_hours
                         ELSE info.opening_hours
    IN  [name |-> info.name,
         address |-> info.address,
         opening_hours |-> opening_hours,
         themes |-> themes,
         description |-> generate_attraction_description(
                             info.name, themes, DescriptionCalls(selected, k) \in fails),
         score |-> attr.score,
         area |-> extract_area_from_address(info.address),
         comment_count |-> info.comment_count]

\* daily_attractions in consecutive blocks instead of round robin.
Distribute_blocks(daily, attractions_info, i) ==
    LET D == Len(daily)
        per == (Len(attractions_info) + D - 1) \div D
    IN  [d \in 1..D |-> SubSeq(attractions_info, Min2((d - 1) * per, Len(attractions_info)) + 1,
                                Min2(d * per, Len(attractions_info)))]

\* The loop of lines 377-379 from index i on.
RECURSIVE Distribute(_, _, _)
Distribute(daily, attractions_info, i) ==
    IF i >= Len(attractions_info) THEN daily
    ELSE LET day_idx == i % Len(daily)
         IN  Distribute([daily EXCEPT ![day_idx + 1] = Append(@, attractions_info[i + 1])],
                        attractions_info, i + 1)

\* _build_llm_prompt(attractions_info, visit_date)
_build_llm_prompt(attractions_info, visit_date) ==
    [date |-> visit_date, attractions |-> attractions_info]

\* _get_weather_tips(date)
_get_weather_tips(date) ==
    IF date.m \in {12, 1, 2} THEN "winter"
    ELSE IF date.m \in {3, 4, 5} THEN "spring"
    ELSE IF date.m \in {6, 7, 8} THEN "summer"
    ELSE "autumn"

_generate_food_recommendation == "foods and restaurants"

\* Two hours per attraction and no travel.
_estimate_total_time_no_travel(attractions) == RoundTenths(120 * Len(attractions), 60)

\* _estimate_total_time: 2 hours per attraction plus the travel between
\* consecutive stops, in tenths of an hour.
_estimate_total_time(attractions) ==
    RoundTenths(120 * Len(attractions) + PathCost(attractions), 60)

\* The fallback text of a day (line 399) and of the undated plan (line 443).
DayFallback(day) == [kind |-> "fallback", date |-> day]

PlanFallback == [kind |-> "fallback", date |-> NoDate]

\* A per-day loop that gives up at the first failed call.
DatePlans_stop_at_failure(date_range, daily_attractions, first_call, fails) ==
    LET failed == {d \in DOMAIN date_range : first_call + d - 1 \in fails}
        upto == IF failed = {} THEN Len(date_range)
                ELSE CHOOSE d \in failed : \A e \in failed : d <= e
    IN  [d \in 1..upto |->
            [date |-> date_range[d],
             plan |-> IF d \in failed THEN DayFallback(date_range[d])
                      ELSE [kind |-> "llm",
                            prompt |-> _build_llm_prompt(daily_attractions[d], date_range[d])]]]

\* The loop of lines 382-400: one entry per day, the call of day d being the
\* call number first_call + d - 1.
DatePlans(date_range, daily_attractions, first_call, fails) ==
    [d \in DOMAIN date_range |->
        [date |-> date_range[d],
         plan |-> IF first_call + d - 1 \in fails THEN DayFallback(date_range[d])
                  ELSE [kind |-> "llm",
                        prompt |-> _build_llm_prompt(daily_attractions[d], date_range[d])]]]

\* selected_attractions after the call had the route been sorted in place.
SelectedAfterPlan_in_place(selected, attractions_info) ==
    [k \in DOMAIN selected |->
        CHOOSE attr \in Range(selected) : attr.node = attractions_info[k].name]

\* selected_attractions after the call: the list is only read (lines 346-367
\* build new dictionaries, _optimize_route returns a new list).
SelectedAfterPlan(selected, attractions_info) == selected

\* generate_travel_plan(selected_attractions, date_range) under the oracle
\* fails.  prompts are the narrative prompts sent to the generator, in order.
generate_travel_plan(selected, date_range, fails) ==
    LET infos == [k \in DOMAIN selected |-> AttractionInfo(selected, k, fails)]
        attractions_info == IF Len(infos) > 1 THEN _optimize_route(infos) ELSE infos
        first_call == DescriptionCalls(selected, Len(selected)) + 1
        total == [count |-> Len(selected), timed |-> TRUE,
                  time |-> _estimate_total_time(attractions_info)]
    IN  IF date_range # <<>>
        THEN LET daily_attractions ==
                     Distribute([d \in DOMAIN date_range |-> <<>>], attractions_info, 0)
                 date_plans == DatePlans(date_range, daily_attractions, first_call, fails)
             IN  [op |-> "generate_travel_plan", raised |-> FALSE,
                  prompts |-> [d \in DOMAIN date_plans |->
                                  _build_llm_prompt(daily_attractions[d], date_range[d])],
                  value |-> [summary |-> total,
                             attractions |-> attractions_info,
                             date_plans |-> date_plans,
                             extras |-> [food |-> _generate_food_recommendation,
                                         weather |-> _get_weather_tips(date_range[1])]]]
        ELSE LET prompt == _build_llm_prompt(attractions_info, NoDate)
             IN  [op |-> "generate_travel_plan", raised |-> FALSE,
                  prompts |-> <<prompt>>,
                  value |-> IF first_call \in fails
                            THEN [summary |-> [count |-> Len(selected), timed |-> FALSE,
                                               time |-> 0],
                                  attractions |-> attractions_info,
                                  plan |-> PlanFallback,
                                  extras |-> [food |-> _generate_food_recommendation]]
                            ELSE [summary |-> total,
                                  attractions |-> attractions_info,
                                  plan |-> [kind |-> "llm", prompt |-> prompt],
                                  extras |-> [food |-> _generate_food_recommendation]]]

(***************************************************************************)
(* The memo cache over a session: the initial state draws one (hours spec, *)
(* date) pair; the session looks this pair up when the cache is empty or   *)
(* about to be full, and looks up other pairs, each a new one, in between. *)
(***************************************************************************)
MemoHours ==
    {MissingHours,
     Str(<< << <<MD(5, 1), CLOSEDHALL>> >> >>),
     Str(<< <<RangeWord>> >>)}

MemoDates == {NoDate, Date(2025, 5, 1)}

\* The other pairs: the all-day spec on the first of January of later years.
OtherHours == Str(<< << <<ALLDAY>> >> >>)

OtherDate(k) == Date(3000 + k, 1, 1)

\* How many other pairs the session has looked up so far: the number of the
\* latest one, which is the most recent entry of the cache or the one before.
OthersSeen ==
    LET n == Len(memo)
    IN  IF n >= 1 /\ memo[n].key.h = OtherHours THEN memo[n].key.dt.y - 3000
        ELSE IF n >= 2 /\ memo[n - 1].key.h = OtherHours THEN memo[n - 1].key.dt.y - 3000
        ELSE 0

MaxOthers == maxsize + 2

InitMemo ==
    /\ NoData
    /\ MemoEmpty /\ PlanIdle /\ AreaIdle /\ NoThreads /\ TspIdle
    /\ hours_arg \in [h : MemoHours, dt : MemoDates]
    /\ hours_ret = Idle
    /\ route_arg = <<>>
    /\ route_ret = Idle

\* self.parse_opening_hours(opening_hours_str, visit_date) on the drawn pair.
\* hours_ret also notes how many other pairs had been looked up by then (seen)
\* and how many of them since the previous lookup of the pair (since, -1 for
\* the first lookup).
LookupPair ==
    /\ Len(memo) = 0 \/ Len(memo) >= maxsize - 1
    /\ LET r == MemoLookup(memo, hours_arg.h, hours_arg.dt)
       IN  /\ memo' = r.memo
           /\ hours_ret' = [op |-> "parse_opening_hours", value |-> r.value,
                            parsed |-> r.parsed, seen |-> OthersSeen,
                            since |-> IF hours_ret = Idle THEN -1
                                      ELSE OthersSeen - hours_ret.seen]
    /\ UNCHANGED <<kg, attractions_dict, attractions_df, call, ret, hours_arg,
                   route_arg, route_ret, plan_arg, plan_ret, area_arg, area_ret, threads, tsp>>

\* The same call on a pair the session has not looked up before.
LookupOther ==
    /\ OthersSeen < MaxOthers
    /\ memo' = MemoLookup(memo, OtherHours, OtherDate(OthersSeen + 1)).memo
    /\ UNCHANGED <<kg, attractions_dict, attractions_df, call, ret, hours_arg, hours_ret,
                   route_arg, route_ret, plan_arg, plan_ret, area_arg, area_ret, threads, tsp>>

NextMemo == LookupPair \/ LookupOther

SpecMemo == InitMemo /\ [][NextMemo]_vars

\* The drawn pair has been looked up and the call returned a result.
Looked == hours_ret # Idle /\ hours_ret.value # "Raise"

\* C11 as stated: the cache is purely additive, so once the result of a pair
\* has been computed a later lookup of the pair never parses the rule string
\* again, whatever number of other pairs has been looked up in between.
C11_Original ==
    (Looked /\ hours_ret.since >= 0) => ~hours_ret.parsed

\* C11 as amended: the cache holds at most 1000 entries, and a later lookup of
\* a pair parses the rule string again exactly when 1000 or more other pairs
\* have been looked up since the pair's previous lookup.
C11_LeastRecentEvicted ==
    /\ Len(memo) <= maxsize
    /\ Looked => (hours_ret.parsed <=> (hours_ret.since = -1 \/ hours_ret.since >= maxsize))

\* The pair was looked up again after fewer than 1000 other pairs and the
\* cache, which is full, answered without parsing.
C11_Witness ==
    /\ Looked
    /\ ~hours_ret.parsed
    /\ hours_ret.since = maxsize - 1
    /\ Len(memo) = maxsize

(***************************************************************************)
(* The web handler: index() calls recommend on the form's query and hands  *)
(* the result and the date range to generate_travel_plan.                  *)
(***************************************************************************)
MaxPlanAttractions == 4

PlanProfiles == {[BaseProfile EXCEPT !.address = a] : a \in {{"Yunlong"}, {"Peixian"}}}

PlanDatasets == SeqsUpTo(PlanProfiles, MaxPlanAttractions) \ {<<>>}

InitPlan ==
    /\ \E ds \in PlanDatasets :
         /\ kg = [nodes |-> [k \in DOMAIN ds |-> NodeOf(k, ds[k])], areas |-> KnownAreas]
         /\ attractions_dict = [k \in DOMAIN ds |-> RecordOf(ds[k])]
    /\ attractions_df \in {[name_column |-> b] : b \in BOOLEAN}
    /\ call = Idle
    /\ ret = Idle
    /\ hours_arg = [h |-> MissingHours, dt |-> NoDate]
    /\ hours_ret = Idle
    /\ route_arg = <<>>
    /\ route_ret = Idle
    /\ MemoEmpty /\ PlanIdle /\ AreaIdle /\ NoThreads /\ TspIdle

\* The queries of the form: a date range or none, no result limit.
PlanQueries ==
    {[DefaultQuery EXCEPT !.date_range = dr, !.top_n = TopNNone] : dr \in DateRanges}

\* Lines 32-38 of show.py.
IndexRecommend ==
    /\ ret = Idle
    /\ \E q \in PlanQueries :
         /\ call' = q
         /\ ret' = recommend(q)
    /\ UNCHANGED <<kg, attractions_dict, attractions_df, hours_arg, hours_ret, route_arg,
                   route_ret, memo, plan_arg, plan_ret, area_arg, area_ret, threads, tsp>>

\* Line 41 of show.py: generate_travel_plan(recs, date_range), under any
\* pattern of failures of the text generator.
GenerateTravelPlan ==
    /\ ret # Idle /\ ~ret.raised
    /\ plan_ret = Idle
    /\ \E fails \in SUBSET (1..(Len(ret.value) + Max2(Len(call.date_range), 1))) :
         LET r == generate_travel_plan(ret.value, call.date_range, fails)
         IN  /\ plan_arg' = [selected |-> ret.value, date_range |-> call.date_range,
                             fails |-> fails]
             /\ plan_ret' = r
             /\ ret' = [ret EXCEPT !.value = SelectedAfterPlan(ret.value, r.value.attractions)]
    /\ UNCHANGED <<kg, attractions_dict, attractions_df, call, hours_arg, hours_ret,
                   route_arg, route_ret, memo, area_arg, area_ret, threads, tsp>>

\* Lines 45-49 of show.py: the page is rendered and the request is over.
Render ==
    /\ plan_ret # Idle
    /\ call' = Idle
    /\ ret' = Idle
    /\ plan_arg' = Idle
    /\ plan_ret' = Idle
    /\ UNCHANGED <<kg, attractions_dict, attractions_df, hours_arg, hours_ret, route_arg,
                   route_ret, memo, area_arg, area_ret, threads, tsp>>

NextPlan == IndexRecommend \/ GenerateTravelPlan \/ Render

SpecPlan == InitPlan /\ [][NextPlan]_vars

Planned == plan_ret # Idle

\* The names of a list of attractions, in order.
Names(attractions) == [k \in DOMAIN attractions |-> attractions[k].name]

\* The position of an attraction in a list that holds it once.
PositionIn(attractions, a) == CHOOSE k \in DOMAIN attractions : attractions[k] = a

\* C12: with a date range of D days the route-ordered attraction at position i
\* (from 0) is assigned to day i mod D, so every attraction is in exactly one
\* day and the attractions of a day keep their relative route order.
C12_RoundRobin ==
    (Planned /\ plan_arg.date_range # <<>>) =>
        LET route == plan_ret.value.attractions
            D == Len(plan_arg.date_range)
            day(d) == plan_ret.prompts[d].attractions
        IN  /\ Len(plan_ret.prompts) = D
            /\ \A i \in 0..(Len(route) - 1) : \A d \in 1..D :
                   Cardinality({k \in DOMAIN day(d) : day(d)[k] = route[i + 1]})
                       = IF d = (i % D) + 1 THEN 1 ELSE 0
            /\ \A d \in 1..D : \A k \in DOMAIN day(d) :
                   /\ day(d)[k] \in Range(route)
                   /\ k > 1 => PositionIn(route, day(d)[k - 1]) < PositionIn(route, day(d)[k])

\* Four attractions, reordered by the route optimizer, over two days: two a day.
C12_Witness ==
    /\ Planned
    /\ Len(plan_arg.date_range) = 2
    /\ Len(plan_ret.value.attractions) = 4
    /\ Names(plan_ret.value.attractions) # [k \in DOMAIN plan_arg.selected |-> plan_arg.selected[k].node]
    /\ Len(plan_ret.prompts[1].attractions) = 2

\* C25: the total time the itinerary reports is 2 hours per attraction plus
\* the travel between the consecutive stops of the route-ordered list (15
\* minutes within an area, otherwise the travel time between the areas plus
\* 30 minutes), in hours, rounded to one decimal: the tenth nearest to the
\* exact sum.
C25_TotalTime ==
    (Planned /\ plan_ret.value.summary.timed) =>
        LET route == plan_ret.value.attractions
            minutes(a, b) ==
                IF a = b THEN 15
                ELSE 30 + (IF <<a, b>> \in DOMAIN ListedTravelTimes
                           THEN ListedTravelTimes[<<a, b>>]
                           ELSE IF <<b, a>> \in DOMAIN ListedTravelTimes
                           THEN ListedTravelTimes[<<b, a>>]
                           ELSE 90)
            total == 120 * Len(route)
                     + SumSeq([k \in 1..(Len(route) - 1) |->
                                  minutes(route[k].area, route[k + 1].area)])
            tenths == plan_ret.value.summary.time
        IN  /\ 6 * tenths - total <= 3
            /\ total - 6 * tenths <= 3
            /\ (total % 6 = 3) => tenths % 2 = 0

\* A timed itinerary over both areas whose exact total falls halfway between
\* two tenths of an hour.
C25_Witness ==
    /\ Planned /\ plan_ret.value.summary.timed
    /\ Len(plan_ret.value.attractions) >= 3
    /\ \E k \in 1..(Len(plan_ret.value.attractions) - 1) :
          plan_ret.value.attractions[k].area # plan_ret.value.attractions[k + 1].area
    /\ (120 * Len(plan_ret.value.attractions) + PathCost(plan_ret.value.attractions)) % 6 = 3
    /\ plan_ret.value.summary.time > 20 * Len(plan_ret.value.attractions)

\* C13: whatever text-generation calls fail, generate_travel_plan returns an
\* itinerary without raising; with a date range it has one plan entry per day
\* in date order, a day whose call failed carries the fallback text, and the
\* days after a failed day are still requested.  (In these data every
\* description is generated, so the call of day d is call number n + d.)
C13_FallbackPerDay ==
    Planned =>
        LET n == Len(plan_arg.selected)
            days == plan_arg.date_range
            fails == plan_arg.fails
            plan == plan_ret.value
        IN  /\ ~plan_ret.raised
            /\ Len(plan.attractions) = n
            /\ \A k \in 1..n :
                  \E a \in Range(plan.attractions) :
                      /\ a.name = plan_arg.selected[k].node
                      /\ a.description.kind = IF k \in fails THEN "fallback" ELSE "llm"
            /\ IF days # <<>>
               THEN /\ Len(plan.date_plans) = Len(days)
                    /\ Len(plan_ret.prompts) = Len(days)
                    /\ \A d \in DOMAIN days :
                          /\ plan.date_plans[d].date = days[d]
                          /\ plan_ret.prompts[d].date = days[d]
                          /\ IF n + d \in fails
                             THEN plan.date_plans[d].plan = DayFallback(days[d])
                             ELSE plan.date_plans[d].plan.kind = "llm"
               ELSE plan.plan = IF n + 1 \in fails THEN PlanFallback
                                ELSE [kind |-> "llm", prompt |-> plan_ret.prompts[1]]

\* Three days: the call of the first day failed, that of the last succeeded,
\* and so did one description while another failed.
C13_Witness ==
    /\ Planned
    /\ Len(plan_arg.date_range) = 3
    /\ Len(plan_arg.selected) >= 2
    /\ 1 \in plan_arg.fails /\ 2 \notin plan_arg.fails
    /\ plan_ret.value.date_plans[1].plan = DayFallback(plan_arg.date_range[1])
    /\ plan_ret.value.date_plans[3].plan.kind = "llm"

\* C30: the parts of the itinerary that are not narrative do not depend on
\* the narrative calls: the summary (with the total time), the ordered
\* attraction list and the food block are those of the run on the same
\* attractions and dates, with the same description calls failing, in which
\* every narrative call succeeds.
C30_NarrativeIndependent ==
    Planned =>
        LET descriptions == 1..DescriptionCalls(plan_arg.selected, Len(plan_arg.selected))
            other == generate_travel_plan(plan_arg.selected, plan_arg.date_range,
                                          plan_arg.fails \cap descriptions)
        IN  /\ plan_ret.value.summary = other.value.summary
            /\ plan_ret.value.attractions = other.value.attractions
            /\ plan_ret.value.extras.food = other.value.extras.food

NumThreads == 2

ConcProfiles ==
    {[BaseProfile EXCEPT !.hours = h] :
        h \in {MissingHours, Str(<< << <<NOTOPEN>> >> >>),
               Str(<< << <<MD(5, 1), CLOSEDHALL>> >> >>)}}

ConcQueries ==
    {[DefaultQuery EXCEPT !.date_range = dr, !.top_n = TopNNone] :
        dr \in {<<>>, <<Date(2025, 5, 1)>>, <<Date(2025, 4, 30), Date(2025, 5, 1)>>}}

IdleThread ==
    [pc |-> "idle", q |-> DefaultQuery, i |-> 0, d |-> 0, open |-> <<>>,
     result |-> <<>>, plan |-> Idle]

InitConc ==
    /\ \E ds \in [1..2 -> ConcProfiles] :
         /\ kg = [nodes |-> [k \in DOMAIN ds |-> NodeOf(k, ds[k])], areas |-> KnownAreas]
         /\ attractions_dict = [k \in DOMAIN ds |-> RecordOf(ds[k])]
    /\ attractions_df \in {[name_column |-> b] : b \in BOOLEAN}
    /\ call = Idle
    /\ ret = Idle
    /\ hours_arg = [h |-> MissingHours, dt |-> NoDate]
    /\ hours_ret = Idle
    /\ route_arg = <<>>
    /\ route_ret = Idle
    /\ MemoEmpty /\ PlanIdle /\ AreaIdle /\ TspIdle
    /\ threads = [t \in 1..NumThreads |-> IdleThread]

ConcUnchanged ==
    UNCHANGED <<kg, attractions_dict, attractions_df, call, ret, hours_arg, hours_ret,
                route_arg, route_ret, plan_arg, plan_ret, area_arg, area_ret, tsp>>

\* The request arrives and recommend starts its loop over the attractions.
StartRequest(t) ==
    /\ threads[t].pc = "idle"
    /\ \E q \in ConcQueries :
         threads' = [threads EXCEPT ![t] =
             [@ EXCEPT !.q = q, !.i = 1, !.d = 1,
                       !.open = [k \in DOMAIN kg.nodes |-> 0],
                       !.pc = IF q.date_range = <<>> \/ kg.nodes = <<>>
                              THEN "rank" ELSE "lookup"]]
    /\ UNCHANGED memo
    /\ ConcUnchanged

\* The thread after check_opening_status has answered for attraction i, day d.
Answered(th, status) ==
    LET counted == [th.open EXCEPT ![th.i] = @ + (IF status = "True" THEN 1 ELSE 0)]
    IN  IF th.d < Len(th.q.date_range)
        THEN [th EXCEPT !.open = counted, !.d = @ + 1, !.pc = "lookup"]
        ELSE IF th.i < Len(kg.nodes)
        THEN [th EXCEPT !.open = counted, !.i = @ + 1, !.d = 1, !.pc = "lookup"]
        ELSE [th EXCEPT !.open = counted, !.pc = "rank"]

\* check_opening_status(info['name'], date) up to the cache lookup: without
\* the name column or the record it answers True at once; a hit answers with
\* the cached value; a miss goes on to parse.
LookupStatus(t) ==
    LET th == threads[t]
        name == kg.nodes[th.i].name
        dt == th.q.date_range[th.d]
    IN  /\ th.pc = "lookup"
        /\ IF ~attractions_df.name_column \/ ~HasRecord(name)
           THEN /\ threads' = [threads EXCEPT ![t] = Answered(th, "True")]
                /\ UNCHANGED memo
           ELSE LET key == MemoKey(attractions_dict[name].opening_hours, dt)
                    k == MemoIndex(memo, key)
                IN  IF k # 0
                    THEN /\ memo' = Append(MemoWithout(memo, k), memo[k])
                         /\ threads' = [threads EXCEPT ![t] = Answered(th, memo[k].value)]
                    ELSE /\ threads' = [threads EXCEPT ![t].pc = "parsing"]
                         /\ UNCHANGED memo
        /\ ConcUnchanged

\* The function body has run: its result is stored and answered; when it
\* raises, nothing is stored and check_opening_status answers True.
ParseStatus(t) ==
    LET th == threads[t]
        h == attractions_dict[kg.nodes[th.i].name].opening_hours
        dt == th.q.date_range[th.d]
        r == parse_opening_hours(h, dt)
    IN  /\ th.pc = "parsing"
        /\ memo' = IF r = "Raise" THEN memo
                   ELSE MemoStore(memo, [key |-> MemoKey(h, dt), value |-> r])
        /\ threads' = [threads EXCEPT ![t] = Answered(th, IF r = "Raise" THEN "True" ELSE r)]
        /\ ConcUnchanged

\* The candidates list from the counts of open days the thread has collected.
RECURSIVE CandidatesCounted(_, _, _)
CandidatesCounted(nodes, q, open) ==
    IF nodes = <<>> THEN <<>>
    ELSE LET node == Head(nodes)
             rest == CandidatesCounted(Tail(nodes), q, open)
         IN  IF q.date_range # <<>> /\ open[node.name] = 0 THEN rest
             ELSE <<CandidateCounted(node, q, open[node.name])>> \o rest

\* Lines 301-341: the candidates are scored, sorted and cut.
RankRequest(t) ==
    LET th == threads[t]
    IN  /\ th.pc = "rank"
        /\ threads' = [threads EXCEPT ![t] =
               [th EXCEPT !.result = Slice(SortCandidates(
                                         CandidatesCounted(get_attractions, th.q, th.open)),
                                         th.q.top_n),
                          !.pc = "plan"]]
        /\ UNCHANGED memo
        /\ ConcUnchanged

\* Line 41 of show.py, the text generator answering every call.
PlanRequest(t) ==
    LET th == threads[t]
    IN  /\ th.pc = "plan"
        /\ threads' = [threads EXCEPT ![t] =
               [th EXCEPT !.plan = generate_travel_plan(th.result, th.q.date_range, {}),
                          !.pc = "done"]]
        /\ UNCHANGED memo
        /\ ConcUnchanged

NextConc ==
    \E t \in 1..NumThreads :
        \/ StartRequest(t)
        \/ LookupStatus(t)
        \/ ParseStatus(t)
        \/ RankRequest(t)
        \/ PlanRequest(t)

SpecConc == InitConc /\ [][NextConc]_vars

\* A finished request holds what recommend and generate_travel_plan return
\* for its query when they run alone.
SameAsAlone ==
    \A t \in DOMAIN threads :
        threads[t].pc = "done" =>
            /\ threads[t].result = recommend(threads[t].q).value
            /\ threads[t].plan = generate_travel_plan(recommend(threads[t].q).value,
                                                      threads[t].q.date_range, {})

\* C18: whatever the interleaving of the requests, each returns what it
\* returns when it runs alone, and no step writes the graph, the record store
\* or the data frame: of the shared state only the memo cache changes.
C18_Independent ==
    /\ []SameAsAlone
    /\ [][UNCHANGED <<kg, attractions_dict, attractions_df>>]_vars

\* Both requests are over, with different results, and the cache has served
\* some of their lookups.
C18_Witness ==
    /\ \A t \in DOMAIN threads : threads[t].pc = "done"
    /\ threads[1].result # threads[2].result
    /\ threads[1].q.date_range # <<>>
    /\ threads[2].q.date_range # <<>>
    /\ attractions_df.name_column
    /\ Len(memo) < Len(threads[1].q.date_range) * Len(kg.nodes)
                   + Len(threads[2].q.date_range) * Len(kg.nodes)

(***************************************************************************)
(* The area tables on their own: the initial state draws two area names,   *)
(* the action looks the pair up both ways in both tables.                  *)
(***************************************************************************)
\* The areas of the tables, the fallback area and a name in neither table.
AreaNames == KnownAreas \cup {UnknownArea, "Elsewhere"}

InitAreas ==
    /\ NoData
    /\ MemoEmpty /\ PlanIdle /\ NoThreads /\ TspIdle
    /\ hours_arg = [h |-> MissingHours, dt |-> NoDate]
    /\ hours_ret = Idle
    /\ route_arg = <<>>
    /\ route_ret = Idle
    /\ area_arg \in [area1 : AreaNames, area2 : AreaNames]
    /\ area_ret = Idle

LookupAreas ==
    /\ area_ret = Idle
    /\ area_ret' = [op |-> "lookup",
                    time |-> get_travel_time(area_arg.area1, area_arg.area2),
                    time_back |-> get_travel_time(area_arg.area2, area_arg.area1),
                    adjacent |-> get_adjacent_areas(area_arg.area1),
                    adjacent_back |-> get_adjacent_areas(area_arg.area2)]
    /\ UNCHANGED <<kg, attractions_dict, attractions_df, call, ret, hours_arg, hours_ret,
                   route_arg, route_ret, memo, plan_arg, plan_ret, area_arg, threads, tsp>>

NextAreas == LookupAreas

SpecAreas == InitAreas /\ [][NextAreas]_vars

\* C14: get_travel_time(A, B) = get_travel_time(B, A) for every pair of areas,
\* and B is in the adjacency list of A exactly when A is in that of B.
C14_SymmetricTables ==
    area_ret # Idle =>
        /\ area_ret.time = area_ret.time_back
        /\ area_arg.area2 \in Range(area_ret.adjacent)
              <=> area_arg.area1 \in Range(area_ret.adjacent_back)

\* A pair the dictionary literal lists in the other direction only
\* (铜山区 to 泉山区), which the adjacency lists hold both ways.
C14_Witness ==
    /\ area_ret # Idle
    /\ area_arg = [area1 |-> "Tongshan", area2 |-> "Quanshan"]
    /\ area_ret.time = 25
    /\ area_ret.time_back = 25
    /\ "Quanshan" \in Range(area_ret.adjacent)

(***************************************************************************)
(* check_opening_status on its own: the initial state draws the hours spec *)
(* of the one attraction and the way the recommender was initialised, the  *)
(* action asks for the status of this attraction, or of a name that has no *)
(* record, on some date.                                                   *)
(***************************************************************************)
InitStatus ==
    /\ \E h \in HoursValues :
         LET p == [BaseProfile EXCEPT !.hours = h]
         IN  /\ kg = [nodes |-> <<NodeOf(1, p)>>, areas |-> KnownAreas]
             /\ attractions_dict = <<RecordOf(p)>>
    /\ attractions_df \in {[name_column |-> b] : b \in BOOLEAN}
    /\ call = Idle
    /\ ret = Idle
    /\ hours_arg = [h |-> MissingHours, dt |-> NoDate]
    /\ hours_ret = Idle
    /\ route_arg = <<>>
    /\ route_ret = Idle
    /\ MemoEmpty /\ PlanIdle /\ AreaIdle /\ NoThreads /\ TspIdle

CheckOpeningStatus ==
    /\ ret = Idle
    /\ \E name \in {1, 2} : \E dt \in HoursDates \cup {NoDate} :
         LET r == check_opening_status(name, dt)
         IN  /\ call' = [op |-> "check_opening_status", attraction_name |-> name,
                         visit_date |-> dt]
             /\ ret' = [op |-> "check_opening_status", raised |-> r = "Raise", value |-> r]
    /\ UNCHANGED <<kg, attractions_dict, attractions_df, hours_arg, hours_ret, route_arg,
                   route_ret, memo, plan_arg, plan_ret, area_arg, area_ret, threads, tsp>>

NextStatus == CheckOpeningStatus

SpecStatus == InitStatus /\ [][NextStatus]_vars

\* C28: a recommender initialised from the cache file answers as one
\* initialised from the source files: check_opening_status returns, for every
\* attraction and date, what it returns on the data frame read from the CSV.
C28_CacheSameAsSource ==
    ret # Idle =>
        ret.value = check_opening_status_on(SourceFrame, call.attraction_name,
                                            call.visit_date)

\* The first rule of a spec is a date range with no time part, or its date
\* range has more than one '-'.
MalformedRule(rule) ==
    /\ rule # <<>>
    /\ DASH \in Range(rule[1])
    /\ \/ Len(rule) = 1
       \/ Cardinality({k \in DOMAIN rule[1] : rule[1][k] = DASH}) > 1

\* C16: check_opening_status never raises, and it returns open for a malformed
\* hours spec (one the evaluator raises on: a date range with no time part, a
\* date range with more than one '-'), for a missing hours field and for a
\* name that has no record.
C16_FailOpen ==
    ret # Idle =>
        LET name == call.attraction_name
            h == attractions_dict[1].opening_hours
        IN  /\ ~ret.raised
            /\ ret.value \in {"True", "False"}
            /\ name \notin DOMAIN attractions_dict => ret.value = "True"
            /\ name = 1 /\ h = MissingHours => ret.value = "True"
            /\ name = 1 /\ parse_opening_hours(h, call.visit_date) = "Raise"
                  => ret.value = "True"
            /\ ( /\ name = 1 /\ h.kind = "str" /\ ~HasClosedMarker(h)
                 /\ \E k \in DOMAIN h.rules : MalformedRule(h.rules[k]) )
                  => ret.value = "True"

\* A recommender built from the source files, asked about an attraction whose
\* spec is a date range with two '-', on a date: the evaluator raises and the
\* status is open.
C16_Witness ==
    /\ ret # Idle
    /\ attractions_df.name_column
    /\ call.attraction_name = 1
    /\ call.visit_date # NoDate
    /\ attractions_dict[1].opening_hours.kind = "str"
    /\ Len(attractions_dict[1].opening_hours.rules) = 1
    /\ MalformedRule(attractions_dict[1].opening_hours.rules[1])
    /\ Len(attractions_dict[1].opening_hours.rules[1]) = 2
    /\ parse_opening_hours(attractions_dict[1].opening_hours, call.visit_date) = "Raise"
    /\ ret.value = "True"

(***************************************************************************)
(* The route optimizer on its own: the initial state draws the attraction  *)
(* list (the area of each stop), the action applies _optimize_route.       *)
(***************************************************************************)
MaxStops == 5

RouteAreas == {"Yunlong", "Quanshan", "Tongshan", "Peixian", UnknownArea}

InitRoute ==
    /\ NoData
    /\ MemoEmpty /\ PlanIdle /\ AreaIdle /\ NoThreads /\ TspIdle
    /\ hours_arg = [h |-> MissingHours, dt |-> NoDate]
    /\ hours_ret = Idle
    /\ \E n \in 0..MaxStops : \E f \in [1..n -> RouteAreas] :
           route_arg = [k \in 1..n |-> [name |-> k, area |-> f[k]]]
    /\ route_ret = Idle

OptimizeRoute ==
    /\ route_ret = Idle
    /\ route_ret' =
          [op |-> "_optimize_route",
           seed |-> IF Len(route_arg) <= 2 THEN route_arg
                    ELSE Reorder(route_arg, SeedTour(TimeMatrix(route_arg))),
           value |-> _optimize_route(route_arg)]
    /\ UNCHANGED <<kg, attractions_dict, attractions_df, call, ret,
                   hours_arg, hours_ret, route_arg,
                   memo, plan_arg, plan_ret, area_arg, area_ret, threads, tsp>>

NextRoute == OptimizeRoute

SpecRoute == InitRoute /\ [][NextRoute]_vars

Routed == route_ret # Idle

\* How often a stop occurs in a list of stops.
Occurrences(stops, x) == Cardinality({k \in DOMAIN stops : stops[k] = x})

\* C5: the output of the route optimizer is a permutation of its input (every
\* selected attraction exactly once, none added), and for 2 or fewer
\* attractions the output order is the input order.
C5_RoutePermutation ==
    Routed =>
        /\ Len(route_ret.value) = Len(route_arg)
        /\ \A k \in DOMAIN route_arg : Occurrences(route_ret.value, route_arg[k]) = 1
        /\ \A k \in DOMAIN route_ret.value : route_ret.value[k] \in Range(route_arg)
        /\ (Len(route_arg) <= 2 => route_ret.value = route_arg)

\* The 2-opt pass has reordered the seed tour, which had reordered the input.
C5_Witness ==
    /\ Routed
    /\ route_ret.value # route_ret.seed
    /\ route_ret.seed # route_arg

\* C6: for 3 or more attractions the sum of the cost-matrix entries over the
\* consecutive stops of the returned order is never greater than that of the
\* nearest-neighbour seed order.
C6_NoWorseThanSeed ==
    (Routed /\ Len(route_arg) >= 3)
        => PathCost(route_ret.value) <= PathCost(route_ret.seed)

\* C23: every entry of the route cost matrix is 15 minutes for two stops of
\* the same area and otherwise the travel time between the areas (the listed
\* value in either direction, 90 for an unlisted pair) plus 30 minutes; the
\* matrix is symmetric.
C23_CostMatrix ==
    Routed =>
        LET M == TimeMatrix(route_arg)
        IN  \A i, j \in DOMAIN M :
                LET a == route_arg[i + 1].area
                    b == route_arg[j + 1].area
                    listed == IF <<a, b>> \in DOMAIN ListedTravelTimes
                              THEN ListedTravelTimes[<<a, b>>]
                              ELSE IF <<b, a>> \in DOMAIN ListedTravelTimes
                              THEN ListedTravelTimes[<<b, a>>]
                              ELSE 90
                IN  /\ M[i][j] = (IF a = b THEN 15 ELSE listed + 30)
                    /\ M[i][j] = M[j][i]

\* A routed list with two stops of one area, a pair of areas listed in the
\* other direction only, and an unlisted pair.
C23_Witness ==
    /\ Routed
    /\ \E i, j, k, l \in DOMAIN route_arg :
         /\ i # j /\ route_arg[i].area = route_arg[j].area
         /\ <<route_arg[k].area, route_arg[i].area>> \in DOMAIN ListedTravelTimes
         /\ TimeMatrix(route_arg)[i - 1][k - 1] = 50
         /\ route_arg[l].area = UnknownArea
         /\ TimeMatrix(route_arg)[i - 1][l - 1] = 120
         /\ TimeMatrix(route_arg)[i - 1][j - 1] = 15

\* The stop numbers of a list of stops, as _solve_tsp returns them.
Indices(stops) == [k \in DOMAIN stops |-> stops[k].name - 1]

\* C24: the tour the 2-opt loop returns is a local optimum of the move it
\* scans: no positions i < j with i >= 1 and j - i >= 2 are such that
\* reversing the segment from i to j makes the two boundary edges (the edge
\* into the segment, and the edge out of it, which after the last position
\* leads back to stop 0) cost strictly less.
C24_LocalOptimum ==
    (Routed /\ Len(route_arg) >= 3) =>
        LET M == TimeMatrix(route_arg)
            n == Len(route_arg)
            path == Indices(route_ret.value)
        IN  \A i \in 1..(n - 1) : \A j \in (i + 2)..(n - 1) :
                LET before == path[i]
                    first == path[i + 1]
                    last == path[j + 1]
                    next == IF j + 1 < n THEN path[j + 2] ELSE 0
                IN  ~(M[before][last] + M[first][next] < M[before][first] + M[last][next])

\* The loop has changed the seed tour of five stops, so that it ran a pass
\* with a reversal and a later pass without.
C24_Witness ==
    /\ Routed
    /\ Len(route_arg) = 5
    /\ route_ret.value # route_ret.seed
    /\ \E i \in 1..2 : \E j \in (i + 2)..4 :
          Delta(TimeMatrix(route_arg), Indices(route_ret.seed), i, j) < 0

(***************************************************************************)
(* _optimize_route step by step: the call with a list of stops, the        *)
(* nearest-neighbour loop one stop at a time, the 2-opt loops one pair     *)
(* (i, j) at a time.  tsp is the frame of _solve_tsp; seed records the     *)
(* nearest-neighbour tour and reversed whether a reversal has been made.   *)
(***************************************************************************)
InitTsp ==
    /\ NoData
    /\ MemoEmpty /\ PlanIdle /\ AreaIdle /\ NoThreads /\ TspIdle
    /\ hours_arg = [h |-> MissingHours, dt |-> NoDate]
    /\ hours_ret = Idle
    /\ route_arg = <<>>
    /\ route_ret = Idle

TspUnchanged ==
    UNCHANGED <<kg, attractions_dict, attractions_df, call, ret, hours_arg, hours_ret,
                memo, plan_arg, plan_ret, area_arg, area_ret, threads>>

\* _optimize_route is called with a list of stops.  Lines 451-452 and
\* 477-483: a short list is returned as it is, otherwise the tour starts at
\* stop 0.
StartRoute ==
    /\ route_ret = Idle /\ tsp = Idle
    /\ \E n \in 0..MaxStops : \E f \in [1..n -> RouteAreas] :
         LET attractions == [k \in 1..n |-> [name |-> k, area |-> f[k]]]
         IN  /\ route_arg' = attractions
             /\ IF Len(attractions) <= 2
                THEN /\ route_ret' = [op |-> "_optimize_route", seed |-> attractions,
                                      value |-> attractions]
                     /\ UNCHANGED tsp
                ELSE /\ tsp' = [pc |-> "seed", path |-> <<0>>, seed |-> <<>>,
                                unvisited |-> InitialUnvisited(Len(attractions)),
                                i |-> 0, j |-> 0, improved |-> TRUE, reversed |-> FALSE]
                     /\ UNCHANGED route_ret
    /\ TspUnchanged

\* One turn of the while loop of lines 485-489; `improved = True` after it.
SeedStep ==
    /\ tsp # Idle /\ tsp.pc = "seed"
    /\ LET M == TimeMatrix(route_arg)
       IN  IF tsp.unvisited = {}
           THEN tsp' = [tsp EXCEPT !.pc = "while", !.improved = TRUE, !.seed = tsp.path]
           ELSE LET next_node == NearestOf(M, tsp.path[Len(tsp.path)], tsp.unvisited)
                IN  tsp' = [tsp EXCEPT !.path = Append(@, next_node),
                                       !.unvisited = @ \ {next_node}]
    /\ UNCHANGED <<route_arg, route_ret>>
    /\ TspUnchanged

\* `while improved:` (lines 492-494): another pass, or the return of the path
\* and of the reordered list (lines 507 and 464).
WhileImproved ==
    /\ tsp # Idle /\ tsp.pc = "while"
    /\ IF tsp.improved
       THEN /\ tsp' = [tsp EXCEPT !.improved = FALSE, !.i = 1, !.j = 2, !.pc = "scan"]
            /\ UNCHANGED route_ret
       ELSE /\ tsp' = [tsp EXCEPT !.pc = "done"]
            /\ route_ret' = [op |-> "_optimize_route",
                             seed |-> Reorder(route_arg, tsp.seed),
                             value |-> Reorder(route_arg, tsp.path)]
    /\ UNCHANGED route_arg
    /\ TspUnchanged

\* One step of the two for loops (lines 495-505) at the pair (i, j).
ScanPair ==
    /\ tsp # Idle /\ tsp.pc = "scan"
    /\ LET M == TimeMatrix(route_arg)
           n == Size(M)
       IN  IF tsp.i >= n - 2 THEN tsp' = [tsp EXCEPT !.pc = "while"]
           ELSE IF tsp.j >= n THEN tsp' = [tsp EXCEPT !.i = @ + 1, !.j = tsp.i + 2]
           ELSE IF tsp.j - tsp.i = 1 THEN tsp' = [tsp EXCEPT !.j = @ + 1]
           ELSE IF Improves(Delta(M, tsp.path, tsp.i, tsp.j))
                THEN tsp' = [tsp EXCEPT !.path = ReverseSegment(@, tsp.i, tsp.j),
                                        !.improved = TRUE, !.reversed = TRUE,
                                        !.j = @ + 1]
                ELSE tsp' = [tsp EXCEPT !.j = @ + 1]
    /\ UNCHANGED <<route_arg, route_ret>>
    /\ TspUnchanged

NextTsp == StartRoute \/ SeedStep \/ WhileImproved \/ ScanPair

\* The call is sequential code that keeps running until it returns.
SpecTsp == InitTsp /\ [][NextTsp]_vars /\ WF_vars(NextTsp)

\* The cost of the tour closed by the way back from the last stop to stop 0.
ClosedTourCost(M, path) ==
    SumSeq([k \in 1..(Len(path) - 1) |-> M[path[k]][path[k + 1]]])
        + M[path[Len(path)]][0]

\* C26: the 2-opt loop terminates for every list of stops: the call returns,
\* and every reversal it makes strictly lowers the cost of the closed tour, so
\* that no tour is visited twice.
C26_Terminates ==
    /\ <>Routed
    /\ [][(tsp # Idle /\ tsp.pc = "scan" /\ tsp'.path # tsp.path) =>
              ClosedTourCost(TimeMatrix(route_arg), tsp'.path)
                  < ClosedTourCost(TimeMatrix(route_arg), tsp.path)]_vars

\* The call on five stops has returned after a pass with a reversal, with
\* the result of _solve_tsp.
C26_Witness ==
    /\ Routed
    /\ Len(route_arg) = 5
    /\ tsp # Idle /\ tsp.pc = "done" /\ tsp.reversed
    /\ tsp.path = _solve_tsp(TimeMatrix(route_arg))

\* C7: for every date, and for an omitted date, the evaluator returns open when
\* the hours spec is missing or empty, and when it contains the open-all-day
\* marker, whatever else it contains.
C7_OpenWhenEmptyOrAllDay ==
    (Parsed /\ (hours_arg.h.kind = "missing" \/ hours_arg.h.rules = <<>>
                  \/ InStr(ALLDAY, hours_arg.h)))
        => hours_ret.value = "True"

\* An open-all-day marker beside a not-open marker and the token of the date.
C7_Witness ==
    /\ Parsed
    /\ InStr(ALLDAY, hours_arg.h) /\ InStr(NOTOPEN, hours_arg.h)
    /\ hours_arg.dt # NoDate
    /\ hours_ret.value = "True"

\* C8: for a spec with the not-open marker, without the open-all-day marker and
\* without the MM/DD token of the requested date, the evaluator returns closed.
C8_NotOpenIsClosed ==
    (Parsed /\ hours_arg.dt # NoDate
            /\ InStr(NOTOPEN, hours_arg.h) /\ ~InStr(ALLDAY, hours_arg.h)
            /\ ~HasToken(hours_arg.h, hours_arg.dt))
        => hours_ret.value = "False"

C8_Witness ==
    /\ Parsed /\ hours_arg.dt # NoDate
    /\ InStr(NOTOPEN, hours_arg.h) /\ ~InStr(ALLDAY, hours_arg.h)
    /\ ~HasToken(hours_arg.h, hours_arg.dt)
    /\ hours_ret.value = "False"

\* C27: for a spec with none of the markers open-all-day, not-open and
\* closed-hall, the evaluator returns open whenever it returns a value: the
\* date-range, weekday and holiday restrictions of the rules never close the
\* attraction on a date no rule matches.
C27_NeverClosedByRules ==
    (Parsed /\ ~InStr(ALLDAY, hours_arg.h) /\ ~InStr(NOTOPEN, hours_arg.h)
            /\ ~InStr(CLOSEDHALL, hours_arg.h))
        => (hours_ret.value # "Raise" => hours_ret.value = "True")

\* A spec of one rule, a date range with a weekday restriction and no marker,
\* evaluated open for a date inside the range on another weekday.
C27_Witness ==
    /\ Parsed
    /\ hours_arg.h = Str(<< <<RangeWord, <<Mark("THU"), TIME>> >> >>)
    /\ _date_in_range(hours_arg.dt, SplitDash(RangeWord)[1], SplitDash(RangeWord)[2])
    /\ Weekday(hours_arg.dt) # 3
    /\ hours_ret.value = "True"

\* C9 as stated: with a closed marker the evaluator returns closed for a
\* requested date unless the MM/DD token of the date is in the spec, and then
\* it returns open.
C9_Original ==
    (Parsed /\ hours_arg.dt # NoDate /\ HasClosedMarker(hours_arg.h))
        => hours_ret.value =
             (IF HasToken(hours_arg.h, hours_arg.dt) THEN "True" ELSE "False")

\* C9 as amended: with a closed marker and no open-all-day marker, the
\* evaluator returns closed for a requested date exactly when the spec has the
\* not-open marker or the MM/DD token of the date (a listed date is a closing
\* date, not an exemption), and open otherwise.
C9_ClosedMarker ==
    (Parsed /\ hours_arg.dt # NoDate /\ HasClosedMarker(hours_arg.h)
            /\ ~InStr(ALLDAY, hours_arg.h))
        => hours_ret.value =
             (IF InStr(NOTOPEN, hours_arg.h) \/ HasToken(hours_arg.h, hours_arg.dt)
              THEN "False" ELSE "True")

\* The hall-closed marker alone, with the token of the requested date.
C9_Witness ==
    /\ Parsed /\ hours_arg.dt # NoDate
    /\ InStr(CLOSEDHALL, hours_arg.h) /\ ~InStr(NOTOPEN, hours_arg.h)
    /\ ~InStr(ALLDAY, hours_arg.h)
    /\ HasToken(hours_arg.h, hours_arg.dt)
    /\ hours_ret.value = "False"

\* C10 as stated: with the date omitted the evaluator returns open for any
\* hours spec.
C10_Original ==
    (Parsed /\ hours_arg.dt = NoDate) => hours_ret.value = "True"

\* C10 as amended: with the date omitted the evaluator returns closed for a
\* spec that has the not-open marker and no open-all-day marker, and open for
\* every other spec (no rule is read, so none raises).
C10_NoDate ==
    (Parsed /\ hours_arg.dt = NoDate)
        => hours_ret.value =
             (IF InStr(NOTOPEN, hours_arg.h) /\ ~InStr(ALLDAY, hours_arg.h)
              THEN "False" ELSE "True")

\* No date, and a rule that raises when a date is given.
C10_Witness ==
    /\ Parsed /\ hours_arg.dt = NoDate
    /\ ~HasClosedMarker(hours_arg.h) /\ ~InStr(ALLDAY, hours_arg.h)
    /\ \E dt \in HoursDates : parse_opening_hours(hours_arg.h, dt) = "Raise"
    /\ hours_ret.value = "True"

====
